---- MODULE Spec2Model ----
(***************************************************************************)
(* The training-step engine of the NN-Model Visualizer                     *)
(* (src/neural-network.js, class NeuralNetwork) as a state machine.        *)
(*                                                                         *)
(* Numbers.  The engine computes in IEEE doubles.  The model computes on   *)
(* a decimal grid: a number x is held as the integer x * Scale, and every  *)
(* product, quotient and library call rounds to the nearest grid point     *)
(* (ties away from zero), as a double operation rounds to the nearest      *)
(* double.  NaN is a value of its own that every arithmetic operation      *)
(* propagates; Null is what JSON.parse(JSON.stringify(..)) makes of NaN.   *)
(* Indices stored in engine arrays are TLA+ sequence positions (from 1);   *)
(* indices written into step records are the code's own (from 0).          *)
(***************************************************************************)
EXTENDS Integers, Sequences, FiniteSets, TLC

\* ------------------------------------------------------------- bounds
\* the grid: two decimal digits
Scale == 10 * 10
MaxInputSize == 2
MaxHiddenLayers == 1
MaxNeurons == 2
MaxCalls == 2

\* ------------------------------------------------------------ numbers
NaN == 0 - (2 ^ 30)
Null == 1 - (2 ^ 30)

IsNum(x) == x # NaN /\ x # Null

ONE == Scale

Max2(a, b) == IF a >= b THEN a ELSE b
Min2(a, b) == IF a <= b THEN a ELSE b

\* n / d rounded to the nearest integer, ties away from zero (d > 0)
RoundDiv(n, d) ==
    IF n >= 0 THEN (2 * n + d) \div (2 * d)
    ELSE 0 - ((2 * (0 - n) + d) \div (2 * d))

\* a JS operand: null coerces to 0, NaN (and undefined) stay NaN
ToNumber(x) == IF x = Null THEN 0 ELSE x

Add(a, b) ==
    IF ToNumber(a) = NaN \/ ToNumber(b) = NaN THEN NaN
    ELSE ToNumber(a) + ToNumber(b)

Neg(a) == IF ToNumber(a) = NaN THEN NaN ELSE 0 - ToNumber(a)

Sub(a, b) == Add(a, Neg(b))

Mul(a, b) ==
    IF ToNumber(a) = NaN \/ ToNumber(b) = NaN THEN NaN
    ELSE RoundDiv(ToNumber(a) * ToNumber(b), Scale)

Div(a, b) ==
    IF ToNumber(a) = NaN \/ ToNumber(b) = NaN \/ ToNumber(b) = 0 THEN NaN
    ELSE IF ToNumber(b) > 0 THEN RoundDiv(ToNumber(a) * Scale, ToNumber(b))
    ELSE 0 - RoundDiv(ToNumber(a) * Scale, 0 - ToNumber(b))

\* Math.sqrt on the grid: the largest r in lo .. hi with r * r <= x * Scale
RECURSIVE SqrtSearch(_, _, _)
SqrtSearch(x, lo, hi) ==
    IF lo >= hi THEN lo
    ELSE LET mid == lo + ((hi - lo + 1) \div 2)
         IN  IF mid * mid <= x * Scale THEN SqrtSearch(x, mid, hi)
             ELSE SqrtSearch(x, lo, mid - 1)

Sqrt(x) == IF x = NaN \/ x < 0 THEN NaN ELSE SqrtSearch(x, 0, Max2(x, Scale))

\* Math.exp on the grid.  e^n by repeated multiplication with 2.718, the
\* fractional part by the Taylor polynomial of degree 4; the result
\* saturates at ExpCap (the grid holds no e^500).
ExpCap == 5000 * Scale

RECURSIVE PowE(_)
PowE(n) ==
    IF n = 0 THEN Scale
    ELSE IF n >= 9 THEN ExpCap
    ELSE Min2(ExpCap, RoundDiv(PowE(n - 1) * 2718, 1000))

ExpFrac(f) ==
    Scale + f + RoundDiv(f * f, 2 * Scale)
          + RoundDiv(f * f * f, 6 * Scale * Scale)
          + RoundDiv(f * f * f * f, 24 * Scale * Scale * Scale)

ExpPos(x) == Min2(ExpCap, RoundDiv(PowE(x \div Scale) * ExpFrac(x % Scale), Scale))

Exp(x) ==
    IF x = NaN THEN NaN
    ELSE IF x >= 0 THEN ExpPos(x)
    ELSE RoundDiv(Scale * Scale, ExpPos(0 - x))

\* Math.tanh on the grid: (e^2x - 1) / (e^2x + 1)
TanhPos(x) == LET e == Exp(2 * Min2(4 * Scale, x)) IN Div(e - ONE, e + ONE)

Tanh(x) ==
    IF x = NaN THEN NaN
    ELSE IF x >= 0 THEN TanhPos(x)
    ELSE 0 - TanhPos(0 - x)

\* -------------------------------------------------------------- state
VARIABLES
    config,             \* the object given to the constructor
    inputSize, hiddenLayers, neuronsPerLayer, activationFunction, learningRate,
    layers, weights, biases,
    activations, preActivations,
    deltas, weightGradients, biasGradients, previousWeights,
    steps, currentStepIndex,
    rng,                \* the state of Math.random's generator
    returned,           \* what the last train/forward/backward call returned
    trainingResult,     \* the object the last train call returned, as its holder sees it
    snapshot,           \* the object the last getNetworkData call returned
    aliased,            \* the snapshot's fields that are still the engine's own arrays
    stepsShared,        \* TRUE while trainingResult.steps is the engine's steps array itself
    twin,               \* a second engine, constructed with the same parameters
    keptSteps,          \* the steps array of the train call before the last, as a
                        \* holder that kept it sees it
    app,                \* the fields of the App object that drives the engine
    fired,              \* the number of timer callbacks the browser has run
    history             \* the calls made so far, the constructor's first

engineVars == <<inputSize, hiddenLayers, neuronsPerLayer, activationFunction,
                learningRate, layers, weights, biases, activations, preActivations,
                deltas, weightGradients, biasGradients, previousWeights, steps,
                currentStepIndex>>

callerVars == <<returned, trainingResult, snapshot, aliased, stepsShared>>

keptVars == <<keptSteps>>

twinVars == <<twin>>

appVars == <<app, fired>>

vars == <<config, engineVars, rng, callerVars, twinVars, keptVars, appVars,
         history>>

\* the call that led to this state
lastOp == history[Len(history)]

\* the calls that only move the step cursor
CursorOps == {"nextStep", "previousStep", "resetSteps", "getCurrentStep",
              "getWeightChange"}

\* the number of calls after construction, and of runs of cursor calls and
\* queries among them (a run of them is recorded as its last call)
moves == Cardinality({n \in DOMAIN history : history[n].name \in CursorOps})

calls == Len(history) - 1 - moves

\* ------------------------------------------------------- Math.random
\* a full-period linear congruential generator on 0 .. RandomModulus - 1
RandomModulus == 16

NextRandom(r) == (5 * r + 3) % RandomModulus

RECURSIVE RandomAt(_, _)
RandomAt(r, n) == IF n = 0 THEN r ELSE RandomAt(NextRandom(r), n - 1)

\* the value in [0, 1) the generator returns in state r
RandomValue(r) == (r * Scale) \div RandomModulus

Seeds == {6}

\* ---------------------------------------------------------- helpers
RECURSIVE Flatten(_)
Flatten(ss) == IF ss = <<>> THEN <<>> ELSE Head(ss) \o Flatten(Tail(ss))

\* a sequence written as a function, evaluated once (TLC holds the elements
\* of [i \in S |-> e] unevaluated until the whole is compared)
Evaluated(f) == IF f = <<>> THEN <<>> ELSE f

Evaluated2(f) == Evaluated([l \in DOMAIN f |-> Evaluated(f[l])])

Evaluated3(f) == Evaluated([l \in DOMAIN f |-> Evaluated2(f[l])])

\* a[i] in JavaScript: undefined past the end, and undefined in arithmetic is NaN
At(a, i) == IF i \in DOMAIN a THEN a[i] ELSE NaN

\* JSON.parse(JSON.stringify(x)): a fresh structure, NaN turned into null
JSONNumber(x) == IF x = NaN THEN Null ELSE x

JSONCopy2(a) == [l \in DOMAIN a |-> [j \in DOMAIN a[l] |-> JSONNumber(a[l][j])]]

JSONCopy3(w) ==
    [l \in DOMAIN w |-> [j \in DOMAIN w[l] |->
        [i \in DOMAIN w[l][j] |-> JSONNumber(w[l][j][i])]]]

\* config.x || d for a number (0 and a missing field are falsy) and for a string
OrDefault(x, d) == IF x = 0 THEN d ELSE x

OrDefaultName(x, d) == IF x = "" THEN d ELSE x

\* ------------------------------------------------- initializeNetwork
LayerSizes(inSz, hid, npl) == <<inSz>> \o [i \in 1 .. hid |-> npl] \o <<1>>

\* Math.random calls made before layer transition t is drawn
RECURSIVE DrawsBefore(_, _)
DrawsBefore(L, t) ==
    IF t = 1 THEN 0
    ELSE DrawsBefore(L, t - 1) + L[t - 1] * L[t] + L[t]

XavierLimit(nIn, nOut) == Sqrt(Div(6 * ONE, (nIn + nOut) * ONE))

\* (Math.random() * 2 - 1) * limit, with the n-th call of Math.random
DrawSigned(r, n, limit) ==
    Mul(Sub(Mul(RandomValue(RandomAt(r, n)), 2 * ONE), ONE), limit)

\* rows and columns exchanged: one row per source neuron
InitWeights_Transposed(L, r) ==
    [t \in 1 .. Len(L) - 1 |-> [k \in 1 .. L[t] |-> [j \in 1 .. L[t + 1] |->
        DrawSigned(r, DrawsBefore(L, t) + (j - 1) * L[t] + (k - 1),
                   XavierLimit(L[t], L[t + 1]))]]]

InitWeights(L, r) ==
    [t \in 1 .. Len(L) - 1 |-> [j \in 1 .. L[t + 1] |-> [k \in 1 .. L[t] |->
        DrawSigned(r, DrawsBefore(L, t) + (j - 1) * L[t] + (k - 1),
                   XavierLimit(L[t], L[t + 1]))]]]

InitBiases(L, r) ==
    [t \in 1 .. Len(L) - 1 |-> [j \in 1 .. L[t + 1] |->
        DrawSigned(r, DrawsBefore(L, t) + L[t] * L[t + 1] + (j - 1), ONE \div 10)]]

\* without the copy into previousWeights
InitializedNetwork_NoSnapshot(inSz, hid, npl, r) ==
    LET L == LayerSizes(inSz, hid, npl)
    IN  [layers |-> L, weights |-> InitWeights(L, r), biases |-> InitBiases(L, r),
         previousWeights |-> <<>>,
         rng |-> RandomAt(r, DrawsBefore(L, Len(L)))]

\* the fields initializeNetwork assigns, from the engine's size fields
InitializedNetwork(inSz, hid, npl, r) ==
    LET L == LayerSizes(inSz, hid, npl)
        W == InitWeights(L, r)
    IN  [layers |-> L, weights |-> W, biases |-> InitBiases(L, r),
         previousWeights |-> JSONCopy3(W),
         rng |-> RandomAt(r, DrawsBefore(L, Len(L)))]

\* -------------------------------------------------------- activation
sigmoid(x) ==
    IF x = NaN THEN NaN
    ELSE LET c == Max2(0 - 500 * Scale, Min2(500 * Scale, x))
         IN  Div(ONE, Add(ONE, Exp(0 - c)))

activate(fn, x, derivative) ==
    CASE fn = "sigmoid" ->
            IF derivative
            THEN LET sig == sigmoid(x) IN Mul(sig, Sub(ONE, sig))
            ELSE sigmoid(x)
      [] fn = "relu" ->
            IF derivative
            THEN (IF x # NaN /\ x > 0 THEN ONE ELSE 0)
            ELSE (IF x = NaN THEN NaN ELSE Max2(0, x))
      [] fn = "tanh" ->
            IF derivative
            THEN LET t == Tanh(x) IN Sub(ONE, Mul(t, t))
            ELSE Tanh(x)
      [] OTHER -> sigmoid(x)

\* ----------------------------------------------------------- forward
\* z = bias; for i < currentActivation.length: z += a[i] * w[i]
RECURSIVE WeightedSum(_, _, _, _)
WeightedSum(z, cur, row, i) ==
    IF i > Len(cur) THEN z
    ELSE WeightedSum(Add(z, Mul(cur[i], At(row, i))), cur, row, i + 1)

\* the configured activation applied to the output layer too
NeuronActivation_Configured(W, fn, t, z) == activate(fn, z, FALSE)

\* the activation of neuron j of layer transition t
NeuronActivation(W, fn, t, z) ==
    IF t = Len(W) THEN sigmoid(z) ELSE activate(fn, z, FALSE)

InputStep(input) ==
    [type |-> "input", phase |-> "forward", layerIndex |-> 0,
     activations |-> JSONCopy2(<<input>>)]

\* the neuron index written from 1
ForwardNeuronStep_OneBased(t, j, z, a, row, cur, b) ==
    [type |-> "forward_neuron", phase |-> "forward", layerIndex |-> t,
     neuronIndex |-> j, weightedSum |-> z, activation |-> a,
     inputWeights |-> row, inputActivations |-> cur, bias |-> b]

ForwardNeuronStep(t, j, z, a, row, cur, b) ==
    [type |-> "forward_neuron", phase |-> "forward", layerIndex |-> t,
     neuronIndex |-> j - 1, weightedSum |-> z, activation |-> a,
     inputWeights |-> row, inputActivations |-> cur, bias |-> b]

LayerCompleteStep(t, acts) ==
    [type |-> "forward_layer_complete", phase |-> "forward", layerIndex |-> t,
     activations |-> JSONCopy2(acts)]

\* one pass of the loop over l, from transition t on; s holds the
\* activations, preActivations and steps built so far
RECURSIVE ForwardLayers(_, _, _, _, _)
ForwardLayers(W, B, fn, t, s) ==
    IF t > Len(W) THEN s
    ELSE LET cur  == s.activations[Len(s.activations)]
             zs   == Evaluated([j \in 1 .. Len(W[t]) |->
                         WeightedSum(B[t][j], cur, W[t][j], 1)])
             as   == Evaluated([j \in 1 .. Len(W[t]) |->
                         NeuronActivation(W, fn, t, zs[j])])
             acts == Append(s.activations, as)
             neuronSteps == [j \in 1 .. Len(W[t]) |->
                 ForwardNeuronStep(t, j, zs[j], as[j], W[t][j], cur, B[t][j])]
         IN  ForwardLayers(W, B, fn, t + 1,
                 [activations |-> acts,
                  preActivations |-> Append(s.preActivations, zs),
                  steps |-> s.steps \o neuronSteps \o <<LayerCompleteStep(t, acts)>>])

\* forward without `this.steps = []`: the new steps follow the old ones
ForwardPass_KeepsSteps(W, B, fn, input) ==
    LET s == ForwardLayers(W, B, fn, 1,
                 [activations |-> <<input>>, preActivations |-> <<<<>>>>,
                  steps |-> steps \o <<InputStep(input)>>])
        last == s.activations[Len(s.activations)]
    IN  [activations |-> s.activations, preActivations |-> s.preActivations,
         steps |-> s.steps, output |-> At(last, 1)]

\* forward without `this.activations = [input]`: the input and the layers'
\* activations are pushed after those of the call before
ForwardPass_KeepsActivations(W, B, fn, input) ==
    LET s == ForwardLayers(W, B, fn, 1,
                 [activations |-> Append(activations, input),
                  preActivations |-> <<<<>>>>,
                  steps |-> <<InputStep(input)>>])
        last == s.activations[Len(s.activations)]
    IN  [activations |-> s.activations, preActivations |-> s.preActivations,
         steps |-> s.steps, output |-> At(last, 1)]

\* forward(input): the fields it assigns, and the value it returns
ForwardPass(W, B, fn, input) ==
    LET s == ForwardLayers(W, B, fn, 1,
                 [activations |-> <<input>>, preActivations |-> <<<<>>>>,
                  steps |-> <<InputStep(input)>>])
        last == s.activations[Len(s.activations)]
    IN  [activations |-> s.activations, preActivations |-> s.preActivations,
         steps |-> s.steps, output |-> At(last, 1)]

\* ---------------------------------------------------------- backward
HALF == ONE \div 2

\* the loss step with the error in its loss field
LossStep_ErrorAsLoss(output, target, error, loss) ==
    [type |-> "loss", phase |-> "backward", output |-> output, target |-> target,
     error |-> error, loss |-> error]

LossStep(output, target, error, loss) ==
    [type |-> "loss", phase |-> "backward", output |-> output, target |-> target,
     error |-> error, loss |-> loss]

OutputDeltaStep(L, delta) ==
    [type |-> "backward_delta", phase |-> "backward", layerIndex |-> Len(L) - 1,
     delta |-> delta]

HiddenDeltaStep(t, j, delta) ==
    [type |-> "backward_delta", phase |-> "backward", layerIndex |-> t,
     neuronIndex |-> j - 1, delta |-> delta]

\* fromNeuron and toNeuron exchanged
WeightUpdateStep_SwappedEnds(t, j, i, old, new, gradient, update) ==
    [type |-> "weight_update", phase |-> "backward", layerIndex |-> t - 1,
     fromNeuron |-> j - 1, toNeuron |-> i - 1, oldWeight |-> old,
     newWeight |-> new, gradient |-> gradient, weightUpdate |-> update]

WeightUpdateStep(t, j, i, old, new, gradient, update) ==
    [type |-> "weight_update", phase |-> "backward", layerIndex |-> t - 1,
     fromNeuron |-> i - 1, toNeuron |-> j - 1, oldWeight |-> old,
     newWeight |-> new, gradient |-> gradient, weightUpdate |-> update]

CompleteStep(W, prev) ==
    [type |-> "complete", phase |-> "complete", weights |-> JSONCopy3(W),
     previousWeights |-> JSONCopy3(prev)]

\* deltaSum = 0; for k < nextLayerDeltas.length: deltaSum += d[k] * w[k][j]
RECURSIVE DeltaSum(_, _, _, _, _)
DeltaSum(sum, nextDeltas, nextWeights, j, k) ==
    IF k > Len(nextDeltas) THEN sum
    ELSE DeltaSum(Add(sum, Mul(nextDeltas[k], At(At(nextWeights, k), j))),
                  nextDeltas, nextWeights, j, k + 1)

\* the weights of the next layer updated before this layer's deltas are
\* summed: each w[k][j] already moved by -learningRate * delta[k] * a[j]
HiddenDelta_UpdatedWeights(W, fn, pre, nextDeltas, t, j) ==
    LET a == activate(fn, At(At(pre, t + 1), j), FALSE)
        updated == [k \in DOMAIN W[t + 1] |-> [i \in DOMAIN W[t + 1][k] |->
                       Add(W[t + 1][k][i],
                           Mul(Neg(learningRate), Mul(At(nextDeltas, k), a)))]]
    IN  Mul(DeltaSum(0, nextDeltas, updated, j, 1),
            activate(fn, At(At(pre, t + 1), j), TRUE))

HiddenDelta(W, fn, pre, nextDeltas, t, j) ==
    Mul(DeltaSum(0, nextDeltas, W[t + 1], j, 1),
        activate(fn, At(At(pre, t + 1), j), TRUE))

\* the loop over l from weights.length - 2 down to 0; d holds the deltas
\* of the transitions after t, s the steps emitted for them
RECURSIVE HiddenDeltas(_, _, _, _, _, _)
HiddenDeltas(W, L, fn, pre, t, acc) ==
    IF t < 1 THEN acc
    ELSE LET ds == Evaluated([j \in 1 .. L[t + 1] |->
                       HiddenDelta(W, fn, pre, Head(acc.deltas), t, j)])
         IN  HiddenDeltas(W, L, fn, pre, t - 1,
                 [deltas |-> <<ds>> \o acc.deltas,
                  steps |-> acc.steps \o
                            [j \in 1 .. L[t + 1] |-> HiddenDeltaStep(t, j, ds[j])]])

\* the gradient added to what the call before left in weightGradients
Gradient_Accumulated(D, A, t, j, i) ==
    Add(Mul(At(D[t], j), At(At(A, t), i)),
        IF /\ t \in DOMAIN weightGradients
           /\ j \in DOMAIN weightGradients[t]
           /\ i \in DOMAIN weightGradients[t][j]
        THEN weightGradients[t][j][i] ELSE 0)

Gradient(D, A, t, j, i) == Mul(At(D[t], j), At(At(A, t), i))

\* the sign lost: the weight moves up the gradient
WeightUpdate_Ascent(lr, gradient) == Mul(lr, gradient)

WeightUpdate(lr, gradient) == Mul(Neg(lr), gradient)

UpdatedWeight(old, lr, gradient) == Add(old, WeightUpdate(lr, gradient))

\* the bias moved up the gradient
UpdatedBias_Ascent(old, lr, delta) == Add(old, Mul(lr, delta))

UpdatedBias(old, lr, delta) == Sub(old, Mul(lr, delta))

\* the step pushed after the loop over i instead of inside it: one per neuron
WeightUpdateSteps_PerNeuron(W, D, A, lr) ==
    Flatten([t \in 1 .. Len(W) |-> [j \in 1 .. Len(W[t]) |->
        LET i == Len(W[t][j])
            g == Gradient(D, A, t, j, i)
        IN  WeightUpdateStep(t, j, i, W[t][j][i],
                UpdatedWeight(W[t][j][i], lr, g), g, WeightUpdate(lr, g))]])

\* the weight_update steps, in the order of the loops over l, j and i
WeightUpdateSteps(W, D, A, lr) ==
    Flatten([t \in 1 .. Len(W) |-> Flatten([j \in 1 .. Len(W[t]) |->
        [i \in 1 .. Len(W[t][j]) |->
            LET g == Gradient(D, A, t, j, i)
            IN  WeightUpdateStep(t, j, i, W[t][j][i],
                    UpdatedWeight(W[t][j][i], lr, g), g, WeightUpdate(lr, g))]])])

\* previousWeights assigned the weights array itself instead of a copy: it
\* sees the updates made in place
BackwardPass_AliasedSnapshot(W, B, L, fn, lr, A, pre, target) ==
    LET output  == At(A[Len(A)], 1)
        error   == Sub(output, target)
        loss    == Mul(Mul(HALF, error), error)
        sigmoidDerivative == Mul(output, Sub(ONE, output))
        outputDelta == Mul(error, sigmoidDerivative)
        hd == HiddenDeltas(W, L, fn, pre, Len(W) - 1,
                  [deltas |-> <<<<outputDelta>>>>,
                   steps |-> <<OutputDeltaStep(L, outputDelta)>>])
        D  == hd.deltas
        grads == Evaluated3([t \in 1 .. Len(W) |-> [j \in 1 .. Len(W[t]) |->
                     [i \in 1 .. Len(W[t][j]) |-> Gradient(D, A, t, j, i)]]])
        newW == Evaluated3([t \in 1 .. Len(W) |-> [j \in 1 .. Len(W[t]) |->
                     [i \in 1 .. Len(W[t][j]) |->
                         UpdatedWeight(W[t][j][i], lr, grads[t][j][i])]]])
        newB == Evaluated2([t \in 1 .. Len(W) |-> [j \in 1 .. Len(B[t]) |->
                     IF j <= Len(W[t]) THEN UpdatedBias(B[t][j], lr, At(D[t], j))
                     ELSE B[t][j]]])
        prev == newW
    IN  [previousWeights |-> prev, deltas |-> D, weightGradients |-> grads,
         biasGradients |-> [t \in 1 .. Len(W) |->
                               [j \in 1 .. Len(W[t]) |-> At(D[t], j)]],
         weights |-> newW, biases |-> newB,
         pushed |-> <<LossStep(output, target, error, loss)>> \o hd.steps
                    \o WeightUpdateSteps(W, D, A, lr)
                    \o <<CompleteStep(newW, prev)>>,
         result |-> [loss |-> loss, output |-> output, error |-> error]]

\* backward(target): the fields it assigns, the steps it pushes and the
\* value it returns
BackwardPass(W, B, L, fn, lr, A, pre, target) ==
    LET output  == At(A[Len(A)], 1)
        error   == Sub(output, target)
        loss    == Mul(Mul(HALF, error), error)
        sigmoidDerivative == Mul(output, Sub(ONE, output))
        outputDelta == Mul(error, sigmoidDerivative)
        hd == HiddenDeltas(W, L, fn, pre, Len(W) - 1,
                  [deltas |-> <<<<outputDelta>>>>,
                   steps |-> <<OutputDeltaStep(L, outputDelta)>>])
        D  == hd.deltas
        grads == Evaluated3([t \in 1 .. Len(W) |-> [j \in 1 .. Len(W[t]) |->
                     [i \in 1 .. Len(W[t][j]) |-> Gradient(D, A, t, j, i)]]])
        newW == Evaluated3([t \in 1 .. Len(W) |-> [j \in 1 .. Len(W[t]) |->
                     [i \in 1 .. Len(W[t][j]) |->
                         UpdatedWeight(W[t][j][i], lr, grads[t][j][i])]]])
        newB == Evaluated2([t \in 1 .. Len(W) |-> [j \in 1 .. Len(B[t]) |->
                     IF j <= Len(W[t]) THEN UpdatedBias(B[t][j], lr, At(D[t], j))
                     ELSE B[t][j]]])
        prev == Evaluated3(JSONCopy3(W))
    IN  [previousWeights |-> prev, deltas |-> D, weightGradients |-> grads,
         biasGradients |-> [t \in 1 .. Len(W) |->
                               [j \in 1 .. Len(W[t]) |-> At(D[t], j)]],
         weights |-> newW, biases |-> newB,
         pushed |-> <<LossStep(output, target, error, loss)>> \o hd.steps
                    \o WeightUpdateSteps(W, D, A, lr)
                    \o <<CompleteStep(newW, prev)>>,
         result |-> [loss |-> loss, output |-> output, error |-> error]]

\* ------------------------------------------------------------ inputs
ActivationFunctions == {"sigmoid", "relu", "tanh"}

LearningRates == {ONE \div 4, ONE}

\* the configurations tried: hiddenLayers 0 and learningRate 0 are the
\* values the constructor's || replaces
Configs ==
    [inputSize : 1 .. MaxInputSize, hiddenLayers : 0 .. MaxHiddenLayers,
     neuronsPerLayer : 1 .. MaxNeurons, activationFunction : ActivationFunctions,
     learningRate : {0, ONE}]

\* input vectors of length n
Inputs(n) ==
    {[i \in 1 .. n |-> IF i % 2 = 1 THEN 2 * ONE ELSE HALF],
     [i \in 1 .. n |-> IF i % 2 = 1 THEN 3 * ONE ELSE 0]}

Targets == {0, ONE}

SnapshotFields == {"layers", "weights", "biases", "activations", "preActivations",
                   "deltas", "weightGradients", "previousWeights"}

NoResult == [output |-> Null, loss |-> Null, error |-> Null]

Op(name, input, target) == [name |-> name, input |-> input, target |-> target]

\* ------------------------------------- emitted steps and later updates
\* every forward_neuron step refers to the engine's weight row itself
StepsAfterUpdates_SharedRows(q, W) ==
    [n \in DOMAIN q |->
        IF q[n].type = "forward_neuron"
        THEN [q[n] EXCEPT !.inputWeights = W[q[n].layerIndex][q[n].neuronIndex + 1]]
        ELSE q[n]]

\* the complete step refers to the engine's weights array itself
StepsAfterUpdates_SharedWeights(q, W) ==
    [n \in DOMAIN q |->
        IF q[n].type = "complete" THEN [q[n] EXCEPT !.weights = W] ELSE q[n]]

\* the steps q, emitted earlier, as their holder sees them once the engine
\* has changed its weights in place to W: every array in a step is a copy
\* (JSON.parse(JSON.stringify(..)) of activations and weights, .slice() of
\* the weight row and of the input activations), so no step changes
StepsAfterUpdates(q, W) == q

\* the fields of an engine as the constructor leaves them
EngineOf(L, W, B, fn, lr, prev) ==
    [layers |-> L, weights |-> W, biases |-> B, activationFunction |-> fn,
     learningRate |-> lr, activations |-> <<>>, preActivations |-> <<>>,
     deltas |-> <<>>, weightGradients |-> <<>>, biasGradients |-> <<>>,
     previousWeights |-> prev, steps |-> <<>>, currentStepIndex |-> 0 - 1]

\* the fields of App as its constructor assigns them, before init() builds
\* the network; null is 0 (timer ids start at 1); timers holds the pending
\* setTimeout timers and pending counts the executeStep promises whose then
\* callback schedules the next playback step
AppFields ==
    [isPlaying |-> FALSE, currentInput |-> <<>>, currentTarget |-> 0,
     currentStepIndex |-> 0 - 1, stepTimeout |-> 0,
     isEpochTraining |-> FALSE, currentEpoch |-> 0, currentSampleInEpoch |-> 0,
     samplesPerEpoch |-> 5, numEpochs |-> 5, epochLosses |-> <<>>,
     epochTimeout |-> 0,
     timers |-> {}, nextTimer |-> 1, pending |-> 0, clicks |-> 0]

\* ------------------------------------------------------- constructor
Init ==
    /\ config \in Configs
    /\ inputSize = OrDefault(config.inputSize, 3)
    /\ hiddenLayers = OrDefault(config.hiddenLayers, 2)
    /\ neuronsPerLayer = OrDefault(config.neuronsPerLayer, 4)
    /\ activationFunction = OrDefaultName(config.activationFunction, "sigmoid")
    /\ learningRate = OrDefault(config.learningRate, HALF)
    /\ \E seed \in Seeds :
          \E n \in {InitializedNetwork(inputSize, hiddenLayers, neuronsPerLayer, seed)} :
              /\ layers = n.layers
              /\ weights = n.weights
              /\ biases = n.biases
              /\ previousWeights = n.previousWeights
              /\ rng = n.rng
    /\ activations = <<>>
    /\ preActivations = <<>>
    /\ deltas = <<>>
    /\ weightGradients = <<>>
    /\ biasGradients = <<>>
    /\ steps = <<>>
    /\ currentStepIndex = 0 - 1
    /\ returned = NoResult
    /\ trainingResult = [output |-> Null, loss |-> Null, error |-> Null, steps |-> <<>>]
    /\ snapshot = [f \in SnapshotFields |-> <<>>]
    /\ aliased = {}
    /\ stepsShared = FALSE
    /\ twin = [engine |-> EngineOf(layers, weights, biases, activationFunction,
                                   learningRate, previousWeights),
               result |-> [output |-> Null, loss |-> Null, error |-> Null,
                           steps |-> <<>>],
               sameBefore |-> FALSE]
    /\ keptSteps = <<>>
    /\ app = AppFields
    /\ fired = 0
    /\ history = <<Op("constructor", <<>>, 0)>>

\* what the holder of a getNetworkData object sees after the engine has
\* changed weights and biases in place and assigned the fields in `fresh` anew
SnapshotAfter(newWeights, newBiases) ==
    [snapshot EXCEPT
        !.weights = IF "weights" \in aliased THEN newWeights ELSE @,
        !.biases = IF "biases" \in aliased THEN newBiases ELSE @]

\* ------------------------------------------------- initializeNetwork
InitializeNetwork ==
    /\ calls < MaxCalls
    /\ \E n \in {InitializedNetwork(inputSize, hiddenLayers, neuronsPerLayer, rng)} :
           /\ layers' = n.layers
           /\ weights' = n.weights
           /\ biases' = n.biases
           /\ previousWeights' = n.previousWeights
           /\ rng' = n.rng
    /\ aliased' = aliased \ {"layers", "weights", "biases", "previousWeights"}
    /\ history' = Append(history, Op("initializeNetwork", <<>>, 0))
    /\ UNCHANGED <<config, inputSize, hiddenLayers, neuronsPerLayer,
                   activationFunction, learningRate, activations, preActivations,
                   deltas, weightGradients, biasGradients, steps, currentStepIndex,
                   returned, trainingResult, snapshot, stepsShared, twin, keptSteps,
                   app, fired>>

\* train without resetSteps(): the cursor stays where it was
Train_KeepsCursor(input, target) ==
    /\ calls < MaxCalls
    /\ \E f \in {ForwardPass(weights, biases, activationFunction, input)} :
       \E b \in {BackwardPass(weights, biases, layers, activationFunction,
                              learningRate, f.activations, f.preActivations, target)} :
       \E r \in {[forward |-> f, backward |-> b,
                  steps |-> StepsAfterUpdates(f.steps, b.weights) \o b.pushed]} :
           /\ currentStepIndex' = currentStepIndex
           /\ activations' = r.forward.activations
           /\ preActivations' = r.forward.preActivations
           /\ previousWeights' = r.backward.previousWeights
           /\ deltas' = r.backward.deltas
           /\ weightGradients' = r.backward.weightGradients
           /\ biasGradients' = r.backward.biasGradients
           /\ weights' = r.backward.weights
           /\ biases' = r.backward.biases
           /\ steps' = r.steps
           /\ returned' = r.backward.result
           /\ trainingResult' = [output |-> r.backward.result.output,
                                 loss |-> r.backward.result.loss,
                                 error |-> r.backward.result.error,
                                 steps |-> r.steps]
           /\ snapshot' = SnapshotAfter(r.backward.weights, r.backward.biases)
           /\ keptSteps' = StepsAfterUpdates(trainingResult.steps, r.backward.weights)
    /\ stepsShared' = TRUE
    /\ aliased' = aliased \ {"activations", "preActivations", "previousWeights",
                             "deltas", "weightGradients"}
    /\ history' = Append(history, Op("train", input, target))
    /\ UNCHANGED <<config, inputSize, hiddenLayers, neuronsPerLayer,
                   activationFunction, learningRate, layers, rng, twin, app, fired>>

\* ------------------------------------------------------------- train
Train(input, target) ==
    /\ calls < MaxCalls
    /\ \E f \in {ForwardPass(weights, biases, activationFunction, input)} :
       \E b \in {BackwardPass(weights, biases, layers, activationFunction,
                              learningRate, f.activations, f.preActivations, target)} :
       \E r \in {[forward |-> f, backward |-> b,
                  steps |-> StepsAfterUpdates(f.steps, b.weights) \o b.pushed]} :
           /\ currentStepIndex' = 0 - 1
           /\ activations' = r.forward.activations
           /\ preActivations' = r.forward.preActivations
           /\ previousWeights' = r.backward.previousWeights
           /\ deltas' = r.backward.deltas
           /\ weightGradients' = r.backward.weightGradients
           /\ biasGradients' = r.backward.biasGradients
           /\ weights' = r.backward.weights
           /\ biases' = r.backward.biases
           /\ steps' = r.steps
           /\ returned' = r.backward.result
           /\ trainingResult' = [output |-> r.backward.result.output,
                                 loss |-> r.backward.result.loss,
                                 error |-> r.backward.result.error,
                                 steps |-> r.steps]
           /\ snapshot' = SnapshotAfter(r.backward.weights, r.backward.biases)
           /\ keptSteps' = StepsAfterUpdates(trainingResult.steps, r.backward.weights)
    /\ stepsShared' = TRUE
    /\ aliased' = aliased \ {"activations", "preActivations", "previousWeights",
                             "deltas", "weightGradients"}
    /\ history' = Append(history, Op("train", input, target))
    /\ UNCHANGED <<config, inputSize, hiddenLayers, neuronsPerLayer,
                   activationFunction, learningRate, layers, rng, twin, app, fired>>

\* ------------------------------------- network.learningRate = value
SetLearningRate(lr) ==
    /\ calls < MaxCalls
    /\ learningRate' = lr
    /\ history' = Append(history, Op("setLearningRate", <<>>, lr))
    /\ UNCHANGED <<config, inputSize, hiddenLayers, neuronsPerLayer,
                   activationFunction, layers, weights, biases, activations,
                   preActivations, deltas, weightGradients, biasGradients,
                   previousWeights, steps, currentStepIndex, rng, callerVars, twin, keptSteps,
                   app, fired>>

Next ==
    \/ \E input \in Inputs(inputSize), target \in Targets : Train(input, target)
    \/ InitializeNetwork
    \/ \E lr \in LearningRates : SetLearningRate(lr)

Spec == Init /\ [][Next]_vars

\* ------------------------------------------------------ getNetworkData
\* the returned object holds the engine's own arrays, not copies
GetNetworkData ==
    /\ calls < MaxCalls
    /\ snapshot' = [layers |-> layers, weights |-> weights, biases |-> biases,
                    activations |-> activations, preActivations |-> preActivations,
                    deltas |-> deltas, weightGradients |-> weightGradients,
                    previousWeights |-> previousWeights]
    /\ aliased' = SnapshotFields
    /\ history' = Append(history, Op("getNetworkData", <<>>, 0))
    /\ UNCHANGED <<config, engineVars, rng, returned, trainingResult, stepsShared,
                   twin, keptSteps,
                   app, fired>>

\* the first number of each field of the returned object: data.layers[0],
\* data.weights[0][0][0], data.biases[0][0], data.preActivations[1][0], ...
HasFirstNumber(field, a) ==
    CASE field = "layers" -> Len(a) >= 1
      [] field \in {"weights", "weightGradients", "previousWeights"} ->
            Len(a) >= 1 /\ Len(a[1]) >= 1 /\ Len(a[1][1]) >= 1
      [] field = "preActivations" -> Len(a) >= 2 /\ Len(a[2]) >= 1
      [] OTHER -> Len(a) >= 1 /\ Len(a[1]) >= 1

WriteFirstNumber(field, a, v) ==
    CASE field = "layers" -> [a EXCEPT ![1] = v]
      [] field \in {"weights", "weightGradients", "previousWeights"} ->
            [a EXCEPT ![1][1][1] = v]
      [] field = "preActivations" -> [a EXCEPT ![2][1] = v]
      [] OTHER -> [a EXCEPT ![1][1] = v]

\* what the write leaves in the engine's field: the array written is the
\* engine's own as long as the engine has not assigned the field anew
Written(field, a, v) ==
    IF field \in aliased THEN WriteFirstNumber(field, a, v) ELSE a

WriteValues == {5 * ONE}

\* the holder of the getNetworkData object assigns v to a number in it
CallerWrite(field, v) ==
    /\ calls < MaxCalls
    /\ HasFirstNumber(field, snapshot[field])
    /\ snapshot' = [snapshot EXCEPT ![field] = WriteFirstNumber(field, @, v)]
    /\ layers' = IF field = "layers" THEN Written(field, layers, v) ELSE layers
    /\ weights' = IF field = "weights" THEN Written(field, weights, v) ELSE weights
    /\ biases' = IF field = "biases" THEN Written(field, biases, v) ELSE biases
    /\ activations' =
           IF field = "activations" THEN Written(field, activations, v) ELSE activations
    /\ preActivations' =
           IF field = "preActivations" THEN Written(field, preActivations, v)
           ELSE preActivations
    /\ deltas' = IF field = "deltas" THEN Written(field, deltas, v) ELSE deltas
    /\ weightGradients' =
           IF field = "weightGradients" THEN Written(field, weightGradients, v)
           ELSE weightGradients
    /\ previousWeights' =
           IF field = "previousWeights" THEN Written(field, previousWeights, v)
           ELSE previousWeights
    /\ history' = Append(history, Op("callerWrite", <<field>>, v))
    /\ UNCHANGED <<config, inputSize, hiddenLayers, neuronsPerLayer,
                   activationFunction, learningRate, biasGradients, steps,
                   currentStepIndex, rng, returned, trainingResult, aliased,
                   stepsShared, twin, keptSteps,
                   app, fired>>

\* the engine and a caller that keeps and writes into getNetworkData objects
NextSnapshot ==
    \/ \E input \in Inputs(inputSize), target \in Targets : Train(input, target)
    \/ GetNetworkData
    \/ \E field \in SnapshotFields, v \in WriteValues : CallerWrite(field, v)

SpecSnapshot == Init /\ [][NextSnapshot]_vars

\* ------------------------------------------------- forward(input) alone
\* forward(input) that takes the previousWeights snapshot as backward does
Forward_TakesSnapshot(input) ==
    /\ calls < MaxCalls
    /\ \E f \in {ForwardPass(weights, biases, activationFunction, input)} :
           /\ activations' = f.activations
           /\ preActivations' = f.preActivations
           /\ steps' = f.steps
           /\ returned' = [output |-> f.output, loss |-> Null, error |-> Null]
    /\ previousWeights' = JSONCopy3(weights)
    /\ stepsShared' = FALSE
    /\ aliased' = aliased \ {"activations", "preActivations"}
    /\ history' = Append(history, Op("forward", input, 0))
    /\ UNCHANGED <<config, inputSize, hiddenLayers, neuronsPerLayer,
                   activationFunction, learningRate, layers, weights, biases,
                   deltas, weightGradients, biasGradients,
                   currentStepIndex, rng, trainingResult, snapshot, twin, keptSteps,
                   app, fired>>

Forward(input) ==
    /\ calls < MaxCalls
    /\ \E f \in {ForwardPass(weights, biases, activationFunction, input)} :
           /\ activations' = f.activations
           /\ preActivations' = f.preActivations
           /\ steps' = f.steps
           /\ returned' = [output |-> f.output, loss |-> Null, error |-> Null]
    /\ stepsShared' = FALSE
    /\ aliased' = aliased \ {"activations", "preActivations"}
    /\ history' = Append(history, Op("forward", input, 0))
    /\ UNCHANGED <<config, inputSize, hiddenLayers, neuronsPerLayer,
                   activationFunction, learningRate, layers, weights, biases,
                   deltas, weightGradients, biasGradients, previousWeights,
                   currentStepIndex, rng, trainingResult, snapshot, twin, keptSteps,
                   app, fired>>

\* ------------------------------------------------ backward(target) alone
\* it reads this.activations[this.activations.length - 1][0], which throws
\* before anything is assigned when no forward pass has run; its steps are
\* pushed onto this.steps, the array the last train call returned as long
\* as no forward has replaced it
Backward(target) ==
    /\ calls < MaxCalls
    /\ activations # <<>>
    /\ \E b \in {BackwardPass(weights, biases, layers, activationFunction,
                              learningRate, activations, preActivations, target)} :
       \E q \in {StepsAfterUpdates(steps, b.weights) \o b.pushed} :
           /\ previousWeights' = b.previousWeights
           /\ deltas' = b.deltas
           /\ weightGradients' = b.weightGradients
           /\ biasGradients' = b.biasGradients
           /\ weights' = b.weights
           /\ biases' = b.biases
           /\ steps' = q
           /\ returned' = b.result
           /\ trainingResult' = IF stepsShared
                                THEN [trainingResult EXCEPT !.steps = q]
                                ELSE trainingResult
           /\ snapshot' = SnapshotAfter(b.weights, b.biases)
           /\ keptSteps' = StepsAfterUpdates(keptSteps, b.weights)
    /\ aliased' = aliased \ {"previousWeights", "deltas", "weightGradients"}
    /\ history' = Append(history, Op("backward", <<>>, target))
    /\ UNCHANGED <<config, inputSize, hiddenLayers, neuronsPerLayer,
                   activationFunction, learningRate, layers, activations,
                   preActivations, currentStepIndex, rng, stepsShared, twin, app, fired>>

\* the engine driven through train, forward, backward and initializeNetwork
NextEngine ==
    \/ \E input \in Inputs(inputSize), target \in Targets : Train(input, target)
    \/ \E input \in Inputs(inputSize) : Forward(input)
    \/ \E target \in Targets : Backward(target)
    \/ InitializeNetwork

SpecEngine == Init /\ [][NextEngine]_vars

\* ----------------------------------------------------- two engines
\* the first engine's fields
Engine ==
    [layers |-> layers, weights |-> weights, biases |-> biases,
     activationFunction |-> activationFunction, learningRate |-> learningRate,
     activations |-> activations, preActivations |-> preActivations,
     deltas |-> deltas, weightGradients |-> weightGradients,
     biasGradients |-> biasGradients, previousWeights |-> previousWeights,
     steps |-> steps, currentStepIndex |-> currentStepIndex]

\* forward without `this.steps = []`: the trace follows the steps engine e held
TrainOutcome_KeepsSteps(e, f, b) ==
    [engine |-> [layers |-> e.layers, weights |-> b.weights, biases |-> b.biases,
                 activationFunction |-> e.activationFunction,
                 learningRate |-> e.learningRate,
                 activations |-> f.activations, preActivations |-> f.preActivations,
                 deltas |-> b.deltas, weightGradients |-> b.weightGradients,
                 biasGradients |-> b.biasGradients,
                 previousWeights |-> b.previousWeights,
                 steps |-> e.steps \o f.steps \o b.pushed,
                 currentStepIndex |-> 0 - 1],
     result |-> [output |-> b.result.output, loss |-> b.result.loss,
                 error |-> b.result.error, steps |-> e.steps \o f.steps \o b.pushed]]

\* train on engine e, with f and b what forward and backward computed from
\* e's fields: the engine it leaves and the object it returns
TrainOutcome(e, f, b) ==
    [engine |-> [layers |-> e.layers, weights |-> b.weights, biases |-> b.biases,
                 activationFunction |-> e.activationFunction,
                 learningRate |-> e.learningRate,
                 activations |-> f.activations, preActivations |-> f.preActivations,
                 deltas |-> b.deltas, weightGradients |-> b.weightGradients,
                 biasGradients |-> b.biasGradients,
                 previousWeights |-> b.previousWeights,
                 steps |-> f.steps \o b.pushed,
                 currentStepIndex |-> 0 - 1],
     result |-> [output |-> b.result.output, loss |-> b.result.loss,
                 error |-> b.result.error, steps |-> f.steps \o b.pushed]]

SameParameters(e1, e2) ==
    /\ e1.layers = e2.layers
    /\ e1.weights = e2.weights
    /\ e1.biases = e2.biases
    /\ e1.activationFunction = e2.activationFunction
    /\ e1.learningRate = e2.learningRate

\* an input that can drive the output neuron into saturation: with target 0
\* the error and the deltas are then too small to move a parameter
SaturatingInput(n) == [i \in 1 .. n |-> 0 - 9 * ONE]

\* the same train(input, target) call made on both engines: es[1] is the
\* first engine, es[2] the second
TrainBoth(input, target) ==
    /\ calls < MaxCalls
    /\ \E es \in {<<Engine, twin.engine>>} :
       \E f \in {Evaluated([k \in 1 .. 2 |->
                   ForwardPass(es[k].weights, es[k].biases,
                               es[k].activationFunction, input)])} :
       \E b \in {Evaluated([k \in 1 .. 2 |->
                   BackwardPass(es[k].weights, es[k].biases, es[k].layers,
                                es[k].activationFunction, es[k].learningRate,
                                f[k].activations, f[k].preActivations, target)])} :
       \E r \in {Evaluated([k \in 1 .. 2 |-> TrainOutcome(es[k], f[k], b[k])])} :
           /\ currentStepIndex' = r[1].engine.currentStepIndex
           /\ activations' = r[1].engine.activations
           /\ preActivations' = r[1].engine.preActivations
           /\ previousWeights' = r[1].engine.previousWeights
           /\ deltas' = r[1].engine.deltas
           /\ weightGradients' = r[1].engine.weightGradients
           /\ biasGradients' = r[1].engine.biasGradients
           /\ weights' = r[1].engine.weights
           /\ biases' = r[1].engine.biases
           /\ steps' = r[1].engine.steps
           /\ returned' = b[1].result
           /\ trainingResult' = r[1].result
           /\ snapshot' = SnapshotAfter(r[1].engine.weights, r[1].engine.biases)
           /\ twin' = [engine |-> r[2].engine, result |-> r[2].result,
                       sameBefore |-> SameParameters(es[1], es[2])]
           /\ keptSteps' = StepsAfterUpdates(trainingResult.steps, r[1].engine.weights)
           /\ UNCHANGED <<app, fired>>
    /\ stepsShared' = TRUE
    /\ aliased' = aliased \ {"activations", "preActivations", "previousWeights",
                             "deltas", "weightGradients"}
    /\ history' = Append(history, Op("trainBoth", input, target))
    /\ UNCHANGED <<config, inputSize, hiddenLayers, neuronsPerLayer,
                   activationFunction, learningRate, layers, rng>>

\* two engines with the same parameters: calls made on the first alone give
\* it a history, then both train on the same example
NextTwin ==
    \/ Train(SaturatingInput(inputSize), 0)
    \/ Forward(SaturatingInput(inputSize))
    \/ \E input \in Inputs(inputSize), target \in Targets : TrainBoth(input, target)

SpecTwin == Init /\ [][NextTwin]_vars

\* ------------------------------------------ inputs of the wrong length
\* forward loops over the input's own length and backward over the weight
\* row's: neither compares the input with layers[0]
MalformedInputs(n) ==
    {[i \in 1 .. n - 1 |-> ONE], [i \in 1 .. n + 1 |-> ONE]}

NextMalformed ==
    \/ \E input \in Inputs(inputSize), target \in Targets : Train(input, target)
    \/ \E input \in MalformedInputs(inputSize), target \in Targets :
           Train(input, target)

SpecMalformed == Init /\ [][NextMalformed]_vars

\* ---------------------------------------------------- the step cursor
\* null is the empty sequence, a step the sequence of that one step
getCurrentStep(q, index) ==
    IF index >= 0 /\ index < Len(q) THEN <<q[index + 1]>> ELSE <<>>

\* nextStep() stepping one place past the last step
nextStep_PastEnd(q, index) ==
    IF index < Len(q)
    THEN [currentStepIndex |-> index + 1, step |-> getCurrentStep(q, index + 1)]
    ELSE [currentStepIndex |-> index, step |-> <<>>]

\* nextStep(): the cursor it leaves and the value it returns
nextStep(q, index) ==
    IF index < Len(q) - 1
    THEN [currentStepIndex |-> index + 1, step |-> getCurrentStep(q, index + 1)]
    ELSE [currentStepIndex |-> index, step |-> <<>>]

previousStep(q, index) ==
    IF index > 0
    THEN [currentStepIndex |-> index - 1, step |-> getCurrentStep(q, index - 1)]
    ELSE [currentStepIndex |-> index, step |-> <<>>]

\* the history after a cursor call: a run of cursor calls is recorded as
\* its last call
Moved(name) ==
    IF lastOp.name \in CursorOps
    THEN [history EXCEPT ![Len(history)] = Op(name, <<>>, 0)]
    ELSE Append(history, Op(name, <<>>, 0))

\* the runs of cursor calls made between the other calls
MaxMoves == MaxCalls - 1

\* a cursor call continues the run it is in or starts a run
MayMove == lastOp.name \in CursorOps \/ moves < MaxMoves

NextStep ==
    /\ MayMove
    /\ currentStepIndex' = nextStep(steps, currentStepIndex).currentStepIndex
    /\ returned' = [step |-> nextStep(steps, currentStepIndex).step]
    /\ history' = Moved("nextStep")
    /\ UNCHANGED <<config, inputSize, hiddenLayers, neuronsPerLayer,
                   activationFunction, learningRate, layers, weights, biases,
                   activations, preActivations, deltas, weightGradients,
                   biasGradients, previousWeights, steps, rng, trainingResult,
                   snapshot, aliased, stepsShared, twin, keptSteps,
                   app, fired>>

PreviousStep ==
    /\ MayMove
    /\ currentStepIndex' = previousStep(steps, currentStepIndex).currentStepIndex
    /\ returned' = [step |-> previousStep(steps, currentStepIndex).step]
    /\ history' = Moved("previousStep")
    /\ UNCHANGED <<config, inputSize, hiddenLayers, neuronsPerLayer,
                   activationFunction, learningRate, layers, weights, biases,
                   activations, preActivations, deltas, weightGradients,
                   biasGradients, previousWeights, steps, rng, trainingResult,
                   snapshot, aliased, stepsShared, twin, keptSteps,
                   app, fired>>

ResetSteps ==
    /\ MayMove
    /\ currentStepIndex' = 0 - 1
    /\ history' = Moved("resetSteps")
    /\ UNCHANGED <<config, inputSize, hiddenLayers, neuronsPerLayer,
                   activationFunction, learningRate, layers, weights, biases,
                   activations, preActivations, deltas, weightGradients,
                   biasGradients, previousWeights, steps, rng, callerVars, twin, keptSteps,
                   app, fired>>

\* the engine and a caller that walks the trace between train calls (the
\* cursor does not depend on the numbers trained on: one example is used)
NextCursor ==
    \/ Train(CHOOSE input \in Inputs(inputSize) : input[1] = 2 * ONE, ONE)
    \/ NextStep
    \/ PreviousStep
    \/ ResetSteps

\* the cursor does not depend on the activation function or the learning
\* rate either: one of each is used
InitCursor ==
    /\ Init
    /\ config.activationFunction = "sigmoid"
    /\ config.learningRate = ONE

SpecCursor == InitCursor /\ [][NextCursor]_vars

\* ----------------------------------------------------- getWeightChange
\* the difference taken the other way round
getWeightChange_Reversed(W, prev, layerIndex, toNeuron, fromNeuron) ==
    IF (layerIndex + 1) \in DOMAIN prev /\ (layerIndex + 1) \in DOMAIN W
    THEN Sub(At(At(prev[layerIndex + 1], toNeuron + 1), fromNeuron + 1),
             At(At(W[layerIndex + 1], toNeuron + 1), fromNeuron + 1))
    ELSE 0

\* JavaScript's truthiness test of previousWeights[l] and weights[l]: an
\* index past the end gives undefined
getWeightChange(W, prev, layerIndex, toNeuron, fromNeuron) ==
    IF (layerIndex + 1) \in DOMAIN prev /\ (layerIndex + 1) \in DOMAIN W
    THEN Sub(At(At(W[layerIndex + 1], toNeuron + 1), fromNeuron + 1),
             At(At(prev[layerIndex + 1], toNeuron + 1), fromNeuron + 1))
    ELSE 0

\* ------------------------------------------------- the read-only calls
GetCurrentStep ==
    /\ MayMove
    /\ returned' = [step |-> getCurrentStep(steps, currentStepIndex)]
    /\ history' = Moved("getCurrentStep")
    /\ UNCHANGED <<config, inputSize, hiddenLayers, neuronsPerLayer,
                   activationFunction, learningRate, layers, weights, biases,
                   activations, preActivations, deltas, weightGradients,
                   biasGradients, previousWeights, steps, currentStepIndex, rng,
                   trainingResult, snapshot, aliased, stepsShared, twin,
                   keptSteps,
                   app, fired>>

GetWeightChange(layerIndex, toNeuron, fromNeuron) ==
    /\ MayMove
    /\ returned' = [change |-> getWeightChange(weights, previousWeights,
                                               layerIndex, toNeuron, fromNeuron)]
    /\ history' = Moved("getWeightChange")
    /\ UNCHANGED <<config, inputSize, hiddenLayers, neuronsPerLayer,
                   activationFunction, learningRate, layers, weights, biases,
                   activations, preActivations, deltas, weightGradients,
                   biasGradients, previousWeights, steps, currentStepIndex, rng,
                   trainingResult, snapshot, aliased, stepsShared, twin,
                   keptSteps,
                   app, fired>>

\* layer indices asked of getWeightChange: the first transition and one past
\* the last
LayerIndices == {0, MaxHiddenLayers + 2}

\* every method of the engine, called in any order; one example and one
\* input size are used, and a call is made while the history is short
InitFrame == InitCursor /\ config.inputSize = 1

Short == Len(history) <= MaxCalls

NextFrame ==
    \/ Short /\ Train(CHOOSE input \in Inputs(inputSize) : input[1] = 2 * ONE, ONE)
    \/ Short /\ Forward(CHOOSE input \in Inputs(inputSize) : input[1] = 2 * ONE)
    \/ Short /\ InitializeNetwork
    \/ Short /\ GetNetworkData
    \/ NextStep
    \/ PreviousStep
    \/ ResetSteps
    \/ GetCurrentStep
    \/ \E layerIndex \in LayerIndices : GetWeightChange(layerIndex, 0, 0)

SpecFrame == InitFrame /\ [][NextFrame]_vars

\* =============================================================== App
MaxEpochs == 2

MaxSamplesPerEpoch == 2

MaxStarts == 2

MaxClicks == 3

\* the engine, Math.random, App.trainingResult, the App's fields and the
\* calls made, as one value that the App's methods take and give back
World ==
    [engine |-> Engine, rng |-> rng, trainingResult |-> trainingResult,
     app |-> app, history |-> history]

Becomes(s) ==
    /\ layers' = s.engine.layers
    /\ weights' = s.engine.weights
    /\ biases' = s.engine.biases
    /\ activationFunction' = s.engine.activationFunction
    /\ learningRate' = s.engine.learningRate
    /\ activations' = s.engine.activations
    /\ preActivations' = s.engine.preActivations
    /\ deltas' = s.engine.deltas
    /\ weightGradients' = s.engine.weightGradients
    /\ biasGradients' = s.engine.biasGradients
    /\ previousWeights' = s.engine.previousWeights
    /\ steps' = s.engine.steps
    /\ currentStepIndex' = s.engine.currentStepIndex
    /\ rng' = s.rng
    /\ trainingResult' = s.trainingResult
    /\ app' = s.app
    /\ history' = s.history
    /\ UNCHANGED <<config, inputSize, hiddenLayers, neuronsPerLayer, returned,
                   snapshot, aliased, stepsShared, twin, keptSteps>>

\* the one value of a set of one value: e(x) for x bound to the value of an
\* expression is written Val({e(x) : x \in {expression}})
Val(S) == CHOOSE r \in S : TRUE

\* setTimeout(callback, delay): the timer it adds has the id a.nextTimer
setTimeout(a, kind) ==
    [a EXCEPT !.timers = @ \cup {[id |-> a.nextTimer, kind |-> kind]},
              !.nextTimer = @ + 1]

clearTimeout(a, id) == [a EXCEPT !.timers = {t \in @ : t.id # id}]

\* this.trainingResult = this.network.train(this.currentInput, this.currentTarget)
networkTrain(s) ==
    Val({Val({Val({Val({
        [x EXCEPT !.engine = o.engine,
                  !.trainingResult = o.result,
                  !.history = Append(@, Op("train", x.app.currentInput,
                                           x.app.currentTarget))] :
        o \in {TrainOutcome(x.engine, f, b)}}) :
        b \in {BackwardPass(x.engine.weights, x.engine.biases, x.engine.layers,
                            x.engine.activationFunction, x.engine.learningRate,
                            f.activations, f.preActivations, x.app.currentTarget)}}) :
        f \in {ForwardPass(x.engine.weights, x.engine.biases,
                           x.engine.activationFunction, x.app.currentInput)}}) :
        x \in {s}})

pausePlayback(s) ==
    Val({[x EXCEPT !.app =
             [IF x.app.stepTimeout # 0
              THEN clearTimeout(x.app, x.app.stepTimeout) ELSE x.app
              EXCEPT !.isPlaying = FALSE, !.stepTimeout = 0]] : x \in {s}})

reset(s) ==
    Val({[p EXCEPT !.app = [p.app EXCEPT !.currentStepIndex = 0 - 1]] :
         p \in {pausePlayback(s)}})

\* currentInput.reduce((a, b) => a + b, 0)
RECURSIVE InputSum(_)
InputSum(q) == IF q = <<>> THEN 0 ELSE Add(InputSum(SubSeq(q, 1, Len(q) - 1)), q[Len(q)])

\* -------------------------------------------------- epoch training
stopEpochTraining(s) ==
    Val({[x EXCEPT !.app =
             [IF x.app.epochTimeout # 0
              THEN clearTimeout(x.app, x.app.epochTimeout) ELSE x.app
              EXCEPT !.isEpochTraining = FALSE, !.epochTimeout = 0]] : x \in {s}})

\* the test of line 1082 left out
EpochStopped_Never(a) == FALSE

\* if (!this.isEpochTraining) return
EpochStopped(a) == ~a.isEpochTraining

\* one epoch more than asked for
EpochsComplete_OneMore(a) == a.currentEpoch > a.numEpochs

\* if (this.currentEpoch >= this.numEpochs)
EpochsComplete(a) == a.currentEpoch >= a.numEpochs

\* inputSize draws of Math.random and the target, 1 if their average is
\* above 0.5
SampleDrawn(s) ==
    Val({[s EXCEPT !.rng = RandomAt(s.rng, inputSize),
                   !.app = [s.app EXCEPT
                       !.currentInput = input,
                       !.currentTarget =
                           IF Div(InputSum(input), Len(input) * ONE) > HALF
                           THEN ONE ELSE 0]] :
         input \in {Evaluated([i \in 1 .. inputSize |->
                                  RandomValue(RandomAt(s.rng, i - 1))])}})

\* this.currentSampleInEpoch++ and the test of line 1110
SampleCounted(a) ==
    IF a.currentSampleInEpoch + 1 >= a.samplesPerEpoch
    THEN [a EXCEPT !.currentEpoch = @ + 1, !.currentSampleInEpoch = 0]
    ELSE [a EXCEPT !.currentSampleInEpoch = @ + 1]

\* the end of runNextEpochSample(): the loss of this.trainingResult pushed,
\* the sample counted, the timer of the next sample set
SampleDone(s) ==
    [s EXCEPT !.app =
        [setTimeout(SampleCounted(s.app), "epoch") EXCEPT
            !.epochLosses = Append(@, s.trainingResult.loss),
            !.epochTimeout = s.app.nextTimer]]

\* the world after this.method(), for the methods of App that reach
\* network.train; startEpochTraining: this.network is set from the
\* constructor on, the buildNetwork() branch of line 1051 is not taken
RECURSIVE Call(_, _)
Call(method, s) ==
    Val({CASE method = "network.train" -> networkTrain(x)
           [] method = "runTraining" ->
                  Val({[t EXCEPT !.app = [t.app EXCEPT !.currentStepIndex = 0 - 1]] :
                       t \in {Call("network.train", x)}})
           [] method = "generateNewSample" ->
                  Call("runTraining", reset(SampleDrawn(x)))
           [] method = "runNextEpochSample" ->
                  IF EpochStopped(x.app) THEN x
                  ELSE IF EpochsComplete(x.app) THEN stopEpochTraining(x)
                  ELSE Val({SampleDone(t) :
                            t \in {Call("network.train",
                                        Call("generateNewSample", x))}})
           [] method = "startEpochTraining" ->
                  Call("runNextEpochSample",
                       [x EXCEPT !.app = [x.app EXCEPT !.isEpochTraining = TRUE,
                                                       !.currentEpoch = 0,
                                                       !.currentSampleInEpoch = 0,
                                                       !.epochLosses = <<>>]]) :
         x \in {s}})

runTraining(s) == Call("runTraining", s)

generateNewSample(s) == Call("generateNewSample", s)

runNextEpochSample(s) == Call("runNextEpochSample", s)

startEpochTraining(s) == Call("startEpochTraining", s)


\* the call recorded at the end of the history
Called(s, name) == [s EXCEPT !.history = Append(@, Op(name, <<>>, 0))]

starts ==
    Cardinality({n \in DOMAIN history : history[n].name = "startEpochTraining"})

\* startEpochTraining() called from the run-epoch button or, while a run is
\* in progress and the button is hidden, through window.app
StartEpochTraining ==
    /\ starts < MaxStarts
    /\ \E s \in {startEpochTraining(Called(World, "startEpochTraining"))} :
           Becomes(s)
    /\ UNCHANGED fired

\* the stop-epoch button is shown while a run is in progress
StopEpochTraining ==
    /\ app.isEpochTraining
    /\ \E s \in {stopEpochTraining(Called(World, "stopEpochTraining"))} :
           Becomes(s)
    /\ UNCHANGED fired

\* a pending epoch timer fires and calls runNextEpochSample()
EpochTimerFires ==
    \E t \in app.timers :
        /\ t.kind = "epoch"
        /\ fired' = fired + 1
        /\ \E s \in {runNextEpochSample(Called(
                        [World EXCEPT !.app = [app EXCEPT !.timers = @ \ {t}]],
                        "runNextEpochSample"))} :
               Becomes(s)

\* -------------------------------------------------------- playback
playNextStep(s) ==
    Val({IF ~x.app.isPlaying THEN x
         ELSE IF x.app.currentStepIndex >= Len(x.trainingResult.steps) - 1
         THEN pausePlayback(x)
         ELSE [x EXCEPT !.app = [x.app EXCEPT !.currentStepIndex = @ + 1,
                                              !.pending = @ + 1]] :
         x \in {s}})

\* this.trainingResult holds a trace from the constructor on: the
\* runTraining() branches of lines 1337 and 1385 are not taken
startPlayback(s) ==
    Val({playNextStep(
            [x EXCEPT !.app =
                [x.app EXCEPT
                    !.isPlaying = TRUE,
                    !.currentStepIndex =
                        IF @ >= Len(x.trainingResult.steps) - 1 THEN 0 - 1 ELSE @]]) :
         x \in {s}})

togglePlayback(s) ==
    Val({IF x.app.isPlaying THEN pausePlayback(x) ELSE startPlayback(x) : x \in {s}})

stepForward(s) ==
    Val({IF x.app.currentStepIndex >= Len(x.trainingResult.steps) - 1 THEN x
         ELSE [x EXCEPT !.app = [x.app EXCEPT !.currentStepIndex = @ + 1]] :
         x \in {s}})

\* this.trainingResult is an object from the constructor on
stepBack(s) ==
    Val({IF x.app.currentStepIndex <= 0 THEN x
         ELSE [x EXCEPT !.app = [x.app EXCEPT !.currentStepIndex = @ - 1]] :
         x \in {s}})

\* a click on one of the playback buttons
Clicked(s) == [s EXCEPT !.app = [s.app EXCEPT !.clicks = @ + 1]]

TogglePlayback ==
    /\ app.clicks < MaxClicks
    /\ \E s \in {togglePlayback(Clicked(World))} : Becomes(s)
    /\ UNCHANGED fired

StepForward ==
    /\ app.clicks < MaxClicks
    /\ \E s \in {stepForward(Clicked(World))} : Becomes(s)
    /\ UNCHANGED fired

StepBack ==
    /\ app.clicks < MaxClicks
    /\ \E s \in {stepBack(Clicked(World))} : Becomes(s)
    /\ UNCHANGED fired

\* the promise of an executeStep call made by playNextStep resolves: its
\* then callback sets the timer of the next step
ExecuteStepDone ==
    /\ app.pending > 0
    /\ \E a \in {[app EXCEPT !.pending = @ - 1]} :
           Becomes([World EXCEPT
               !.app = [setTimeout(a, "step") EXCEPT !.stepTimeout = a.nextTimer]])
    /\ UNCHANGED fired

\* a pending step timer fires and calls playNextStep()
StepTimerFires ==
    \E t \in app.timers :
        /\ t.kind = "step"
        /\ fired' = fired + 1
        /\ \E s \in {playNextStep(
                        [World EXCEPT !.app = [app EXCEPT !.timers = @ \ {t}]])} :
               Becomes(s)

\* ------------------------------------------- new App(): init()
\* the networks the app is built with: one hidden neuron and one
\* activation function
AppConfigs ==
    {c \in Configs : /\ c.hiddenLayers = 1
                     /\ c.neuronsPerLayer = 1
                     /\ c.activationFunction = "sigmoid"}

\* buildNetwork(): new NeuralNetwork(config), generateNewSample(), reset()
buildNetwork(n, fn, lr, a) ==
    reset(generateNewSample(
        [engine |-> EngineOf(n.layers, n.weights, n.biases, fn, lr,
                             n.previousWeights),
         rng |-> n.rng,
         trainingResult |-> [output |-> Null, loss |-> Null, error |-> Null,
                             steps |-> <<>>],
         app |-> a,
         history |-> <<Op("constructor", <<>>, 0)>>]))

InitApp ==
    /\ config \in AppConfigs
    /\ inputSize = OrDefault(config.inputSize, 3)
    /\ hiddenLayers = OrDefault(config.hiddenLayers, 2)
    /\ neuronsPerLayer = OrDefault(config.neuronsPerLayer, 4)
    /\ \E seed \in Seeds, numEpochs \in 1 .. MaxEpochs,
          samplesPerEpoch \in 1 .. MaxSamplesPerEpoch :
       \E n \in {InitializedNetwork(inputSize, hiddenLayers, neuronsPerLayer, seed)} :
       \E s \in {buildNetwork(n, OrDefaultName(config.activationFunction, "sigmoid"),
                              OrDefault(config.learningRate, HALF),
                              [AppFields EXCEPT !.numEpochs = numEpochs,
                                                !.samplesPerEpoch = samplesPerEpoch])} :
           /\ layers = s.engine.layers
           /\ weights = s.engine.weights
           /\ biases = s.engine.biases
           /\ activationFunction = s.engine.activationFunction
           /\ learningRate = s.engine.learningRate
           /\ activations = s.engine.activations
           /\ preActivations = s.engine.preActivations
           /\ deltas = s.engine.deltas
           /\ weightGradients = s.engine.weightGradients
           /\ biasGradients = s.engine.biasGradients
           /\ previousWeights = s.engine.previousWeights
           /\ steps = s.engine.steps
           /\ currentStepIndex = s.engine.currentStepIndex
           /\ rng = s.rng
           /\ trainingResult = s.trainingResult
           /\ app = s.app
           /\ history = s.history
           /\ twin = [engine |-> s.engine, result |-> s.trainingResult,
                      sameBefore |-> FALSE]
    /\ returned = NoResult
    /\ snapshot = [f \in SnapshotFields |-> <<>>]
    /\ aliased = {}
    /\ stepsShared = TRUE
    /\ keptSteps = <<>>
    /\ fired = 0

NextEpoch ==
    \/ StartEpochTraining
    \/ StopEpochTraining
    \/ EpochTimerFires

\* the runs do not depend on the input size or the learning rate: one of
\* each is used
InitEpoch == InitApp /\ config.inputSize = 1 /\ config.learningRate = ONE

SpecEpoch == InitEpoch /\ [][NextEpoch]_vars

\* a run started from the run-epoch button and left alone; the browser fires
\* a timer that is pending
NextEpochRun ==
    \/ ~app.isEpochTraining /\ StartEpochTraining
    \/ EpochTimerFires

\* the step of EpochTimerFires as the count of callbacks tells it: a
\* timer is pending and the browser runs one callback more
EpochTimerCallback ==
    /\ \E t \in app.timers : t.kind = "epoch"
    /\ fired' = fired + 1

SpecEpochRun == InitApp /\ [][NextEpochRun]_vars /\ WF_fired(EpochTimerCallback)

NextPlayback ==
    \/ TogglePlayback
    \/ StepForward
    \/ StepBack
    \/ ExecuteStepDone
    \/ StepTimerFires

SpecPlayback == InitApp /\ [][NextPlayback]_vars

\* ============================================================ claims
RECURSIVE SumSeq(_)
SumSeq(q) == IF q = <<>> THEN 0 ELSE Head(q) + SumSeq(Tail(q))

\* neurons of all layers but the input layer, and weights of all transitions
NeuronCount(L) == SumSeq(Tail(L))

WeightCount(L) == SumSeq([l \in 1 .. Len(L) - 1 |-> L[l] * L[l + 1]])

CountType(q, ty) == Cardinality({n \in DOMAIN q : q[n].type = ty})

\* what orders a step: its type and the indices it carries
StepKey(st) ==
    CASE st.type \in {"input", "forward_layer_complete"} -> <<st.type, st.layerIndex>>
      [] st.type = "forward_neuron" -> <<st.type, st.layerIndex, st.neuronIndex>>
      [] st.type = "backward_delta" ->
            IF "neuronIndex" \in DOMAIN st
            THEN <<st.type, st.layerIndex, st.neuronIndex>>
            ELSE <<st.type, st.layerIndex>>
      [] st.type = "weight_update" ->
            <<st.type, st.layerIndex, st.toNeuron, st.fromNeuron>>
      [] OTHER -> <<st.type>>

StepKeys(q) == [n \in DOMAIN q |-> StepKey(q[n])]

ForwardOrder(L) ==
    <<<<"input", 0>>>> \o
    Flatten([l \in 1 .. Len(L) - 1 |->
        [j \in 1 .. L[l + 1] |-> <<"forward_neuron", l, j - 1>>]
        \o <<<<"forward_layer_complete", l>>>>])

BackwardOrder(L) ==
    <<<<"loss">>, <<"backward_delta", Len(L) - 1>>>> \o
    Flatten([d \in 1 .. Len(L) - 2 |->
        [j \in 1 .. L[Len(L) - d] |-> <<"backward_delta", Len(L) - 1 - d, j - 1>>]]) \o
    Flatten([l \in 1 .. Len(L) - 1 |-> Flatten([j \in 1 .. L[l + 1] |->
        [i \in 1 .. L[l] |-> <<"weight_update", l - 1, j - 1, i - 1>>]])]) \o
    <<<<"complete">>>>

AfterTrain == lastOp.name = "train"

\* C1: the constructed network's layers are [inputSize, neuronsPerLayer x
\* hiddenLayers, 1] for every configuration, hiddenLayers = 0 included
C1_LayersFollowConfig ==
    lastOp.name = "constructor" =>
        /\ Len(layers) = config.hiddenLayers + 2
        /\ layers[1] = config.inputSize
        /\ \A l \in 2 .. Len(layers) - 1 : layers[l] = config.neuronsPerLayer
        /\ layers[Len(layers)] = 1

\* C2: in every reachable state weights[l] has layers[l+1] rows of layers[l]
\* entries each, and biases[l] has layers[l+1] entries
C2_ShapeInvariant ==
    /\ Len(weights) = Len(layers) - 1
    /\ Len(biases) = Len(layers) - 1
    /\ \A l \in 1 .. Len(layers) - 1 :
          /\ Len(weights[l]) = layers[l + 1]
          /\ \A j \in DOMAIN weights[l] : Len(weights[l][j]) = layers[l]
          /\ Len(biases[l]) = layers[l + 1]

C2_Witness ==
    /\ calls = 2
    /\ history[2].name = "initializeNetwork"
    /\ AfterTrain
    /\ weights # previousWeights
    /\ layers[1] # layers[2]

\* C3: the steps a train call returns hold one forward_neuron and one
\* backward_delta step per non-input neuron and one weight_update step per weight
C3_TraceCompleteness ==
    AfterTrain =>
        /\ CountType(trainingResult.steps, "forward_neuron") = NeuronCount(layers)
        /\ CountType(trainingResult.steps, "backward_delta") = NeuronCount(layers)
        /\ CountType(trainingResult.steps, "weight_update") = WeightCount(layers)

C3_Witness ==
    /\ AfterTrain
    /\ Len(layers) = 4
    /\ layers[1] = 2
    /\ layers[2] = 2
    /\ CountType(trainingResult.steps, "weight_update") = 10

\* C4: the forward steps come first and in order: the input step, then per
\* layer its forward_neuron steps by neuron index and its forward_layer_complete
C4_ForwardOrder ==
    AfterTrain =>
        LET n == Len(ForwardOrder(layers))
        IN  /\ Len(steps) >= n
            /\ StepKeys(SubSeq(steps, 1, n)) = ForwardOrder(layers)
            /\ \A k \in DOMAIN steps : steps[k].phase = "forward" <=> k <= n

C4_Witness ==
    /\ AfterTrain
    /\ Len(layers) = 4
    /\ layers[2] = 2
    /\ steps[6].type = "forward_neuron"
    /\ steps[6].layerIndex = 2
    /\ steps[6].neuronIndex = 1

\* C5: the backward steps follow in order: loss, the output delta, the hidden
\* deltas from the last hidden layer down, every weight_update by (layer,
\* toNeuron, fromNeuron), and one complete step, the last
C5_BackwardOrder ==
    AfterTrain =>
        LET n == Len(ForwardOrder(layers))
        IN  StepKeys(SubSeq(steps, n + 1, Len(steps))) = BackwardOrder(layers)

C5_Witness ==
    /\ AfterTrain
    /\ Len(layers) = 4
    /\ layers[1] = 2
    /\ layers[2] = 2
    /\ steps[Len(steps)].type = "complete"
    /\ \E k \in DOMAIN steps :
          /\ steps[k].type = "weight_update"
          /\ steps[k].layerIndex = 1
          /\ steps[k].toNeuron = 1
          /\ steps[k].fromNeuron = 0
          /\ steps[k].weightUpdate # 0

\* C6: after any number of train calls the engine's steps are those of the
\* last call alone: one input step first, one loss step, one complete step
\* last, and a length that the topology fixes
C6_StepsRegenerated ==
    AfterTrain =>
        /\ steps[1].type = "input"
        /\ steps[1].activations = <<lastOp.input>>
        /\ CountType(steps, "input") = 1
        /\ CountType(steps, "loss") = 1
        /\ CountType(steps, "complete") = 1
        /\ steps[Len(steps)].type = "complete"
        /\ Len(steps) = 2 * NeuronCount(layers) + WeightCount(layers) + Len(layers) + 2

C6_Witness ==
    /\ calls = 2
    /\ history[2].name = "train"
    /\ history[3].name = "train"
    /\ history[2].input # history[3].input
    /\ CountType(steps, "loss") = 1

\* C7: a train call moves every weight to old - learningRate * gradient, the
\* gradient being delta * activation of the same call and learningRate the
\* engine's current value, and the weight_update step records old, new,
\* gradient and weightUpdate = -learningRate * gradient = new - old
WeightUpdateStepOf(q, t, j, i) ==
    {n \in DOMAIN q : /\ q[n].type = "weight_update"
                      /\ q[n].layerIndex = t - 1
                      /\ q[n].toNeuron = j - 1
                      /\ q[n].fromNeuron = i - 1}

C7_WeightUpdateRule ==
    [][lastOp'.name = "train" =>
        \A t \in DOMAIN weights : \A j \in DOMAIN weights[t] :
        \A i \in DOMAIN weights[t][j] :
            LET g == Mul(deltas'[t][j], activations'[t][i])
                ks == WeightUpdateStepOf(steps', t, j, i)
            IN  /\ weights'[t][j][i] = Sub(weights[t][j][i], Mul(learningRate, g))
                /\ Cardinality(ks) = 1
                /\ \A k \in ks :
                      /\ steps'[k].oldWeight = weights[t][j][i]
                      /\ steps'[k].newWeight = weights'[t][j][i]
                      /\ steps'[k].gradient = g
                      /\ steps'[k].weightUpdate = Neg(Mul(learningRate, g))
                      /\ steps'[k].newWeight =
                             Add(steps'[k].oldWeight, steps'[k].weightUpdate)]_vars

C7_Witness ==
    /\ calls = 2
    /\ history[2].name = "setLearningRate"
    /\ history[2].target # OrDefault(config.learningRate, HALF)
    /\ learningRate = history[2].target
    /\ AfterTrain
    /\ \E k \in DOMAIN steps :
          /\ steps[k].type = "weight_update"
          /\ steps[k].layerIndex = 0
          /\ steps[k].weightUpdate # 0
          /\ steps[k].newWeight # steps[k].oldWeight

\* C8: train returns the output of its forward pass, error = output - target
\* and loss = 0.5 * error * error, the loss step carries the same values,
\* loss >= 0, and loss = 0 exactly when output = target
OutputOfForward(q, L) == q[Len(ForwardOrder(L)) - 1].activation

LossStepOf(q, L) == q[Len(ForwardOrder(L)) + 1]

C8_ResultValues ==
    /\ trainingResult.output = OutputOfForward(trainingResult.steps, layers)
    /\ trainingResult.output = activations[Len(activations)][1]
    /\ trainingResult.error = Sub(trainingResult.output, lastOp.target)
    /\ trainingResult.loss = Mul(Mul(HALF, trainingResult.error), trainingResult.error)
    /\ LET st == LossStepOf(trainingResult.steps, layers)
       IN  /\ st.type = "loss"
           /\ st.output = trainingResult.output
           /\ st.target = lastOp.target
           /\ st.error = trainingResult.error
           /\ st.loss = trainingResult.loss
    /\ trainingResult.loss >= 0

C8_LossZeroIffEqual ==
    AfterTrain =>
        /\ C8_ResultValues
        /\ trainingResult.loss = 0 <=> trainingResult.output = lastOp.target

\* C8 as amended: the same, with loss = 0 whenever output = target (a small
\* nonzero error squares to 0 in finite precision)
C8_LossZeroIfEqual ==
    AfterTrain =>
        /\ C8_ResultValues
        /\ trainingResult.output = lastOp.target => trainingResult.loss = 0

C8_Witness ==
    /\ AfterTrain
    /\ trainingResult.output = lastOp.target
    /\ trainingResult.loss = 0
    /\ LossStepOf(trainingResult.steps, layers).loss = 0

C8_WitnessPositive ==
    /\ AfterTrain
    /\ trainingResult.error < 0
    /\ trainingResult.loss > 0

\* Math.log on the grid, by bisection on Exp: the least y in
\* [-LogRange, 0] with Exp(y) >= x, for 0 < x <= 1
LogRange == 9 * Scale

RECURSIVE LogSearch(_, _, _)
LogSearch(x, lo, hi) ==
    IF lo >= hi THEN lo
    ELSE LET mid == lo + ((hi - lo) \div 2)
         IN  IF Exp(mid) >= x THEN LogSearch(x, lo, mid)
             ELSE LogSearch(x, mid + 1, hi)

Log(x) ==
    IF x = NaN \/ x < 0 THEN NaN
    ELSE IF x = 0 THEN 0 - LogRange
    ELSE LogSearch(x, 0 - LogRange, 0)

\* -(y ln a + (1 - y) ln(1 - a))
BinaryCrossEntropy(a, y) ==
    Neg(Add(Mul(y, Log(a)), Mul(Sub(ONE, y), Log(Sub(ONE, a)))))

\* C9: the loss of a training example is the binary cross-entropy of the
\* output against the target
C9_LossIsCrossEntropy ==
    AfterTrain =>
        trainingResult.loss = BinaryCrossEntropy(trainingResult.output, lastOp.target)

\* C10: a write into the object getNetworkData returned changes no field of
\* the engine
C10_SnapshotIsolated ==
    [][lastOp'.name = "callerWrite" =>
        UNCHANGED <<layers, weights, biases, activations, preActivations, deltas,
                    weightGradients, previousWeights>>]_vars

\* the valid (layerIndex, toNeuron, fromNeuron) of a weight array, from 0
ValidIndices(W) ==
    {<<l, j, i>> \in (0 .. Len(W) - 1) \X (0 .. MaxNeurons + 1) \X (0 .. MaxNeurons + 1) :
        j < Len(W[l + 1]) /\ i < Len(W[l + 1][j + 1])}

\* some weight_update step of the trace moved its weight
SomeWeightMoved(q) ==
    \E n \in DOMAIN q : q[n].type = "weight_update" /\ q[n].newWeight # q[n].oldWeight

\* C11: immediately after initializeNetwork, whatever came before it,
\* previousWeights equals the freshly drawn weights and getWeightChange is 0
\* for every valid index
C11_ResetOnInitialize ==
    lastOp.name = "initializeNetwork" =>
        /\ previousWeights = weights
        /\ \A x \in ValidIndices(weights) :
               getWeightChange(weights, previousWeights, x[1], x[2], x[3]) = 0

C11_Witness ==
    /\ lastOp.name = "initializeNetwork"
    /\ Len(history) = 3
    /\ history[2].name = "train"
    /\ SomeWeightMoved(steps)
    /\ ValidIndices(weights) # {}

\* C12: getWeightChange(l, j, i) is weights[l][j][i] minus the value the
\* weight had immediately before the most recent backward pass; it is 0 when
\* no backward pass has run since construction or re-initialization, and 0
\* for a layer index without a weight snapshot
C12_AllZero(W, prev) ==
    \A x \in ValidIndices(W) : getWeightChange(W, prev, x[1], x[2], x[3]) = 0

C12_Step ==
    /\ lastOp'.name \in {"train", "backward"} =>
           \A x \in ValidIndices(weights') :
               getWeightChange(weights', previousWeights', x[1], x[2], x[3])
                   = Sub(weights'[x[1] + 1][x[2] + 1][x[3] + 1],
                         weights[x[1] + 1][x[2] + 1][x[3] + 1])
    /\ lastOp'.name = "initializeNetwork" => C12_AllZero(weights', previousWeights')
    /\ lastOp'.name = "forward" =>
           \A x \in ValidIndices(weights') :
               getWeightChange(weights', previousWeights', x[1], x[2], x[3])
                   = getWeightChange(weights, previousWeights, x[1], x[2], x[3])
    /\ getWeightChange(weights', previousWeights', Len(weights'), 0, 0) = 0

C12_WeightChange ==
    /\ C12_AllZero(weights, previousWeights)
    /\ [][C12_Step]_vars

C12_Witness ==
    /\ lastOp.name = "backward"
    /\ history[Len(history) - 1].name = "train"
    /\ \E x \in ValidIndices(weights) :
           /\ getWeightChange(weights, previousWeights, x[1], x[2], x[3]) # 0
           /\ getWeightChange(weights, previousWeights, x[1], x[2], x[3])
                  # Sub(weights[x[1] + 1][x[2] + 1][x[3] + 1],
                         twin.engine.weights[x[1] + 1][x[2] + 1][x[3] + 1])

\* C13: a train call with an input of the wrong length does not corrupt the
\* engine: a later train call with a correctly sized input returns a numeric
\* output and leaves every weight and bias a number
AllNumbers2(a) == \A l \in DOMAIN a : \A j \in DOMAIN a[l] : IsNum(a[l][j])

AllNumbers3(w) ==
    \A l \in DOMAIN w : \A j \in DOMAIN w[l] : \A i \in DOMAIN w[l][j] :
        IsNum(w[l][j][i])

C13_MalformedInputIsLocal ==
    (/\ lastOp.name = "train"
     /\ Len(lastOp.input) = layers[1]
     /\ \E n \in 2 .. Len(history) - 1 :
            history[n].name = "train" /\ Len(history[n].input) # layers[1])
    => /\ IsNum(trainingResult.output)
       /\ AllNumbers3(weights)
       /\ AllNumbers2(biases)

\* C14: the step sequence a train call returned is complete when train
\* returns, and no later train, forward, backward or initializeNetwork call
\* adds, removes or alters a step of it (a later train call hands its holder
\* a new sequence; the other calls hand over none)
C14_ReturnedStepsFrozen ==
    [][/\ lastOp'.name = "train" =>
              /\ trainingResult'.steps = steps'
              /\ trainingResult'.steps[Len(trainingResult'.steps)].type = "complete"
       /\ lastOp'.name \in {"forward", "backward", "initializeNetwork"} =>
              trainingResult'.steps = trainingResult.steps]_vars

\* C15: every train call resets the step cursor, whatever nextStep and
\* previousStep calls preceded it: after train currentStepIndex = -1,
\* getCurrentStep returns null and the next nextStep returns the input step
\* of the new trace
C15_TrainResetsCursor ==
    AfterTrain =>
        /\ currentStepIndex = 0 - 1
        /\ getCurrentStep(steps, currentStepIndex) = <<>>
        /\ nextStep(steps, currentStepIndex).currentStepIndex = 0
        /\ nextStep(steps, currentStepIndex).step = <<steps[1]>>
        /\ steps[1] = InputStep(lastOp.input)

C15_Witness ==
    /\ AfterTrain
    /\ Len(history) = 4
    /\ history[2].name = "train"
    /\ history[3].name = "nextStep"
    /\ currentStepIndex = 0 - 1

\* C16: a train call is self-contained: two engines with equal layers,
\* weights, biases, activationFunction and learningRate but different
\* histories return equal loss, output, error and steps from the same
\* train(input, target) call and end with equal weights and biases
C16_SelfContained ==
    (lastOp.name = "trainBoth" /\ twin.sameBefore) =>
        /\ trainingResult = twin.result
        /\ weights = twin.engine.weights
        /\ biases = twin.engine.biases

\* the first engine had trained before (and kept its parameters), the
\* second had not
C16_Witness ==
    /\ lastOp.name = "trainBoth"
    /\ twin.sameBefore
    /\ history[Len(history) - 1].name = "train"
    /\ SomeWeightMoved(steps)

\* C17: forward is deterministic in the parameters and the input: a second
\* forward(input) call right after the first, with no backward or
\* initializeNetwork in between, gives the same output, activations,
\* preActivations and step sequence
C17_ForwardDeterministic ==
    [][(/\ lastOp.name = "forward"
        /\ lastOp'.name = "forward"
        /\ Len(history') = Len(history) + 1
        /\ lastOp'.input = lastOp.input)
       => /\ returned' = returned
          /\ activations' = activations
          /\ preActivations' = preActivations
          /\ steps' = steps]_vars

C17_Witness ==
    /\ lastOp.name = "forward"
    /\ history[Len(history) - 1].name = "forward"
    /\ history[Len(history) - 1].input = lastOp.input
    /\ IsNum(returned.output)
    /\ Len(steps) = Len(ForwardOrder(layers))
    /\ Len(activations) = Len(layers)

\* C18: every backward pass starts by replacing previousWeights with a full
\* copy of the weights as they are before the pass's updates: after the pass
\* previousWeights[l][j][i] is the pre-update weight for every (l, j, i),
\* nothing of earlier passes is left in it, and the in-place updates of the
\* same pass have not changed it
C18_SnapshotBeforeUpdates ==
    [][lastOp'.name \in {"train", "backward"} =>
           /\ previousWeights' = weights
           /\ \A x \in ValidIndices(weights') :
                  previousWeights'[x[1] + 1][x[2] + 1][x[3] + 1]
                      = weights[x[1] + 1][x[2] + 1][x[3] + 1]
           /\ steps'[Len(steps')].previousWeights = weights
           /\ "previousWeights" \notin aliased']_vars

\* a second pass, after a first one that moved weights, moving weights again
C18_Witness ==
    /\ lastOp.name \in {"train", "backward"}
    /\ history[Len(history) - 1].name = "train"
    /\ previousWeights # weights
    /\ previousWeights # twin.engine.previousWeights
    /\ SomeWeightMoved(steps)

\* C19: every hidden delta is (sum over k of delta[l+1][k] * w[l+1][k][j])
\* times f'(z[l+1][j]), f' the derivative of the configured activation, and
\* every w in the sum is the weight from before the call's updates
C19_DeltaOf(D, W, fn, pre, t, j) ==
    Mul(SumSeq([k \in 1 .. Len(D[t + 1]) |-> Mul(D[t + 1][k], W[t + 1][k][j])]),
        activate(fn, pre[t + 1][j], TRUE))

C19_HiddenDeltas ==
    [][lastOp'.name = "train" =>
           \A t \in 1 .. Len(weights) - 1 : \A j \in 1 .. layers[t + 1] :
               deltas'[t][j] = C19_DeltaOf(deltas', weights, activationFunction,
                                           preActivations', t, j)]_vars

\* a hidden delta that the weights as updated by the same call would have
\* made another number
C19_Witness ==
    /\ AfterTrain
    /\ \E t \in 1 .. Len(weights) - 1 : \E j \in 1 .. layers[t + 1] :
           /\ deltas[t][j] # 0
           /\ deltas[t][j] # C19_DeltaOf(deltas, weights, activationFunction,
                                          preActivations, t, j)

\* C20: the output layer is always sigmoid, whatever activationFunction is
\* configured: the output neuron's activation is sigmoid(z_out) and the
\* output delta is error * output * (1 - output); the configured activation
\* is applied to the hidden neurons only
OutputNeuronStep(q, L) == q[Len(ForwardOrder(L)) - 1]

OutputDeltaStepOf(q, L) == q[Len(ForwardOrder(L)) + 2]

C20_OutputIsSigmoid ==
    AfterTrain =>
        /\ \A n \in 1 .. Len(ForwardOrder(layers)) :
               steps[n].type = "forward_neuron" =>
                   steps[n].activation =
                       IF steps[n].layerIndex = Len(layers) - 1
                       THEN sigmoid(steps[n].weightedSum)
                       ELSE activate(activationFunction, steps[n].weightedSum, FALSE)
        /\ OutputNeuronStep(steps, layers).layerIndex = Len(layers) - 1
        /\ trainingResult.output = sigmoid(OutputNeuronStep(steps, layers).weightedSum)
        /\ OutputDeltaStepOf(steps, layers).type = "backward_delta"
        /\ OutputDeltaStepOf(steps, layers).delta =
               Mul(trainingResult.error,
                   Mul(trainingResult.output, Sub(ONE, trainingResult.output)))
        /\ deltas[Len(deltas)] = <<OutputDeltaStepOf(steps, layers).delta>>

\* a relu or tanh network whose output the configured activation, and whose
\* output delta the configured derivative, would have made another number
C20_Witness ==
    /\ AfterTrain
    /\ activationFunction \in {"relu", "tanh"}
    /\ LET z == OutputNeuronStep(steps, layers).weightedSum
       IN  /\ trainingResult.output # activate(activationFunction, z, FALSE)
           /\ OutputDeltaStepOf(steps, layers).delta # 0
           /\ OutputDeltaStepOf(steps, layers).delta
                  # Mul(trainingResult.error, activate(activationFunction, z, TRUE))

\* C21: one train call changes every bias to bias[l][j] - learningRate *
\* deltas[l][j] and sets biasGradients[l][j] = deltas[l][j], and no step is
\* emitted for a bias update: every step of the trace has one of the seven
\* types
StepTypes == {"input", "forward_neuron", "forward_layer_complete", "loss",
              "backward_delta", "weight_update", "complete"}

C21_BiasUpdate ==
    [][lastOp'.name = "train" =>
           /\ \A l \in DOMAIN biases : \A j \in DOMAIN biases[l] :
                  /\ biases'[l][j] = Sub(biases[l][j], Mul(learningRate, deltas'[l][j]))
                  /\ biasGradients'[l][j] = deltas'[l][j]
           /\ DOMAIN biases' = DOMAIN biases
           /\ biasGradients' = deltas'
           /\ \A n \in DOMAIN steps' : steps'[n].type \in StepTypes
           /\ Len(steps') = Len(ForwardOrder(layers)) + Len(BackwardOrder(layers))]_vars

\* a first train call that moved a bias
C21_Witness ==
    /\ AfterTrain
    /\ Len(history) = 2
    /\ \E l \in DOMAIN biases : \E j \in DOMAIN biases[l] :
           /\ deltas[l][j] # 0
           /\ biases[l][j] # twin.engine.biases[l][j]
           /\ biases[l][j] = Sub(twin.engine.biases[l][j],
                                 Mul(learningRate, deltas[l][j]))

\* C22: the single complete step of a train call carries the engine's
\* weights after all updates of the call and, as previousWeights, the weights
\* before them, both as copies: a later train or initializeNetwork call does
\* not alter the values in a complete step emitted before
C22_CompleteStep ==
    [][/\ lastOp'.name = "train" =>
              /\ CountType(trainingResult'.steps, "complete") = 1
              /\ LET st == trainingResult'.steps[Len(trainingResult'.steps)]
                 IN  /\ st.type = "complete"
                     /\ st.weights = weights'
                     /\ st.previousWeights = weights
              /\ keptSteps' = trainingResult.steps
       /\ lastOp'.name = "initializeNetwork" =>
              /\ trainingResult'.steps = trainingResult.steps
              /\ keptSteps' = keptSteps]_vars

\* the complete step of an earlier train call, kept while a later train call
\* moved the weights it had recorded
C22_Witness ==
    /\ AfterTrain
    /\ keptSteps # <<>>
    /\ keptSteps[Len(keptSteps)].type = "complete"
    /\ keptSteps[Len(keptSteps)].weights = previousWeights
    /\ keptSteps[Len(keptSteps)].weights # weights
    /\ steps[Len(steps)].weights = weights

\* C23: after every train call deltas, weightGradients and biasGradients hold
\* the values of that call only: they have the shape of weights,
\* weightGradients[l][j][i] = deltas[l][j] * activations[l][i] with the
\* activations of this call's input, biasGradients[l][j] = deltas[l][j], the
\* output delta is the one of this call's result, and nothing of an earlier
\* call is summed into them
C23_GradientsOfThisCall ==
    AfterTrain =>
        /\ activations[1] = lastOp.input
        /\ DOMAIN deltas = DOMAIN weights
        /\ DOMAIN weightGradients = DOMAIN weights
        /\ DOMAIN biasGradients = DOMAIN weights
        /\ deltas[Len(deltas)] =
               <<Mul(trainingResult.error,
                     Mul(trainingResult.output, Sub(ONE, trainingResult.output)))>>
        /\ \A t \in DOMAIN weights :
               /\ DOMAIN deltas[t] = DOMAIN weights[t]
               /\ DOMAIN weightGradients[t] = DOMAIN weights[t]
               /\ DOMAIN biasGradients[t] = DOMAIN weights[t]
               /\ \A j \in DOMAIN weights[t] :
                      /\ biasGradients[t][j] = deltas[t][j]
                      /\ DOMAIN weightGradients[t][j] = DOMAIN weights[t][j]
                      /\ \A i \in DOMAIN weights[t][j] :
                             weightGradients[t][j][i] =
                                 Mul(deltas[t][j], activations[t][i])

\* a second train call on the same network: the call before left a gradient
\* other than zero on an edge whose gradient now is another number
C23_Witness ==
    /\ AfterTrain
    /\ keptSteps # <<>>
    /\ \E n \in DOMAIN keptSteps :
           /\ keptSteps[n].type = "weight_update"
           /\ keptSteps[n].gradient # 0
           /\ LET t == keptSteps[n].layerIndex + 1
                  j == keptSteps[n].toNeuron + 1
                  i == keptSteps[n].fromNeuron + 1
              IN  /\ t \in DOMAIN weightGradients
                  /\ j \in DOMAIN weightGradients[t]
                  /\ i \in DOMAIN weightGradients[t][j]
                  /\ weightGradients[t][j][i] # 0
                  /\ weightGradients[t][j][i] # keptSteps[n].gradient

\* C25: in the trace returned by train every forward_neuron step satisfies
\* weightedSum = bias + sum over i of inputWeights[i] * inputActivations[i]
\* with the operands of the forward pass, which are the weights and biases of
\* the state before the call: the in-place updates of the same call's
\* backward pass do not reach the recorded operands
C25_ForwardOperandsKept ==
    [][lastOp'.name = "train" =>
        \A n \in DOMAIN trainingResult'.steps :
            LET st == trainingResult'.steps[n]
            IN  st.type = "forward_neuron" =>
                    /\ st.inputWeights = weights[st.layerIndex][st.neuronIndex + 1]
                    /\ st.bias = biases[st.layerIndex][st.neuronIndex + 1]
                    /\ st.inputActivations = activations'[st.layerIndex]
                    /\ DOMAIN st.inputWeights = DOMAIN st.inputActivations
                    /\ st.weightedSum =
                           st.bias + SumSeq([i \in DOMAIN st.inputWeights |->
                               Mul(st.inputWeights[i], st.inputActivations[i])])]_vars

\* a returned forward_neuron step whose weights and bias the same call has
\* since updated in the engine
C25_Witness ==
    /\ AfterTrain
    /\ \E n \in DOMAIN trainingResult.steps :
           LET st == trainingResult.steps[n]
           IN  /\ st.type = "forward_neuron"
               /\ st.inputWeights # weights[st.layerIndex][st.neuronIndex + 1]
               /\ st.bias # biases[st.layerIndex][st.neuronIndex + 1]
               /\ st.inputWeights = previousWeights[st.layerIndex][st.neuronIndex + 1]

\* C26: whatever train, nextStep, previousStep and resetSteps calls were
\* made, -1 <= currentStepIndex <= steps.length - 1; nextStep at the last
\* step returns null and leaves the cursor, previousStep at index 0 or -1
\* returns null and leaves the cursor, and only resetSteps or train brings
\* the cursor back to -1
C26_CursorInRange ==
    /\ [](/\ currentStepIndex >= 0 - 1
          /\ currentStepIndex <= Len(steps) - 1)
    /\ [][/\ (lastOp'.name = "nextStep" /\ currentStepIndex = Len(steps) - 1) =>
                (returned'.step = <<>> /\ currentStepIndex' = currentStepIndex)
          /\ (lastOp'.name = "previousStep" /\ currentStepIndex \in {0 - 1, 0}) =>
                (returned'.step = <<>> /\ currentStepIndex' = currentStepIndex)
          /\ (currentStepIndex # 0 - 1 /\ currentStepIndex' = 0 - 1) =>
                lastOp'.name \in {"resetSteps", "train"}]_vars

\* the trace walked to its last step and nextStep called once more
C26_Witness ==
    /\ lastOp.name = "nextStep"
    /\ Len(steps) > 0
    /\ currentStepIndex = Len(steps) - 1
    /\ returned.step = <<>>

\* C24: weights and biases change only in initializeNetwork and in backward
\* (alone or within train): forward leaves weights, biases and
\* previousWeights unchanged, and nextStep, previousStep, resetSteps,
\* getCurrentStep, getNetworkData and getWeightChange leave all parameters
\* and trace buffers unchanged
ReadOnlyOps == CursorOps \cup {"getNetworkData"}

C24_FrameOfCalls ==
    [][/\ (weights' # weights \/ biases' # biases) =>
              lastOp'.name \in {"initializeNetwork", "backward", "train"}
       /\ lastOp'.name = "forward" =>
              UNCHANGED <<weights, biases, previousWeights>>
       /\ lastOp'.name \in ReadOnlyOps =>
              UNCHANGED <<layers, weights, biases, previousWeights, learningRate,
                          activationFunction, activations, preActivations, deltas,
                          weightGradients, biasGradients, steps, trainingResult,
                          keptSteps>>]_vars

\* forward called after a train call that moved a weight: previousWeights
\* still is the snapshot of that train call
C24_Witness ==
    /\ lastOp.name = "forward"
    /\ Len(history) = 3
    /\ history[2].name = "train"
    /\ previousWeights # weights
    /\ getWeightChange(weights, previousWeights, 0, 0, 0) # 0

\* the calls a step adds to the history, and the network.train calls among
\* them
NewCalls == SubSeq(history', Len(history) + 1, Len(history'))

NewTrains == {n \in DOMAIN NewCalls : NewCalls[n].name = "train"}

\* C27: one execution of the sample body of runNextEpochSample causes
\* exactly one network.train call, that is one gradient-descent update of
\* the weights from the sample drawn, and the loss pushed to epochLosses is
\* the loss of that call
C27_OneTrainPerSample ==
    [][NewTrains # {} =>
          /\ Cardinality(NewTrains) = 1
          /\ \E o \in {networkTrain([World EXCEPT
                          !.app = [app EXCEPT
                              !.currentInput = app'.currentInput,
                              !.currentTarget = app'.currentTarget]])} :
                 /\ weights' = o.engine.weights
                 /\ biases' = o.engine.biases
                 /\ app'.epochLosses[Len(app'.epochLosses)] = o.trainingResult.loss]_vars

\* C28: at most one playback chain is active at a time: while playing, the
\* executeStep promises and step timers that lead to a playNextStep call
\* are at most one, and while paused no promise or timer advances
\* currentStepIndex
PlaybackChains ==
    app.pending + Cardinality({t \in app.timers : t.kind = "step"})

C28_OnePlaybackChain ==
    /\ [](app.isPlaying => PlaybackChains <= 1)
    /\ [][(~app.isPlaying /\ ~app'.isPlaying /\ app'.clicks = app.clicks) =>
              app'.currentStepIndex = app.currentStepIndex]_vars

\* C29: epoch training started with numEpochs = E and samplesPerEpoch = S
\* and left alone eventually ends: after exactly E * S sample bodies (one
\* loss pushed by each) currentEpoch = E, isEpochTraining is false and no
\* epoch timer is pending
EpochEnded ==
    /\ ~app.isEpochTraining
    /\ app.epochTimeout = 0
    /\ {t \in app.timers : t.kind = "epoch"} = {}
    /\ app.currentEpoch = app.numEpochs
    /\ app.currentSampleInEpoch = 0
    /\ Len(app.epochLosses) = app.numEpochs * app.samplesPerEpoch

C29_EpochTrainingEnds ==
    /\ [](/\ Len(app.epochLosses) =
                app.currentEpoch * app.samplesPerEpoch + app.currentSampleInEpoch
          /\ Len(app.epochLosses) <= app.numEpochs * app.samplesPerEpoch)
    /\ (app.isEpochTraining ~> EpochEnded)

\* a run of more than one epoch of more than one sample that has ended
C29_Witness ==
    /\ EpochEnded
    /\ lastOp.name = "runNextEpochSample"
    /\ app.numEpochs > 1
    /\ app.samplesPerEpoch > 1

\* C30: stopEpochTraining cancels the pending epoch timer and sets
\* isEpochTraining to false, and from then until startEpochTraining is
\* called no sample is trained: a runNextEpochSample that still fires
\* returns without calling network.train and leaves the weights,
\* currentEpoch, currentSampleInEpoch and epochLosses
C30_StoppedStaysStopped ==
    [][/\ (NewCalls # <<>> /\ NewCalls[1].name = "stopEpochTraining") =>
              /\ ~app'.isEpochTraining
              /\ app'.epochTimeout = 0
              /\ \A t \in app'.timers : t.id # app.epochTimeout
       /\ (/\ ~app.isEpochTraining
           /\ NewCalls # <<>>
           /\ NewCalls[1].name # "startEpochTraining") =>
              /\ NewTrains = {}
              /\ UNCHANGED <<weights, biases>>
              /\ ~app'.isEpochTraining
              /\ app'.currentEpoch = app.currentEpoch
              /\ app'.currentSampleInEpoch = app.currentSampleInEpoch
              /\ app'.epochLosses = app.epochLosses]_vars

\* a timer of a run started before fired right after stopEpochTraining
\* stopped the run half-way
C30_Witness ==
    /\ lastOp.name = "runNextEpochSample"
    /\ history[Len(history) - 1].name = "stopEpochTraining"
    /\ ~app.isEpochTraining
    /\ app.epochLosses # <<>>
    /\ app.currentEpoch < app.numEpochs

====
